---- MODULE Spec2Model ----
(***************************************************************************)
(* A model of the pug front end: packages/pug-lexer/index.js (the Lexer    *)
(* class and its driving loop getTokens) and packages/pug-parser/index.js  *)
(* (the recursive-descent Parser).                                         *)
(*                                                                         *)
(* JavaScript values are modelled as follows.  A string is a sequence of   *)
(* one-character strings, so that regular expressions, split and substr    *)
(* are computed character by character.  `undefined` held by a string      *)
(* field is the value Undef; an object property that is undefined is a     *)
(* record field that is absent.  A thrown exception is a record            *)
(* [kind |-> ...]; NoExc means that nothing was thrown.                     *)
(***************************************************************************)
EXTENDS Integers, Sequences, FiniteSets, TLC

VARIABLES
  lexer,      \* the fields of the Lexer object (this.*)
  outcome,    \* how lex(str, options) stands: running, returned, or thrown
  advances,   \* calls of advance() made by getTokens so far (cyclic past MaxAdvances)
  fnCall,     \* the call of a function checked on its own: name and arguments
  fnResult,   \* what that call returned or threw
  vocab,      \* the vocabulary the token array handed to the parser is drawn from
  stream,     \* that token array, before it is closed and located
  parsed      \* what parse() returned or threw for it

vars == <<lexer, outcome, advances, fnCall, fnResult, vocab, stream, parsed>>

----------------------------------------------------------------------------
(* Bounds of the model.                                                    *)

MaxSrcLen == 5
MaxAdvances == 3
MaxLine == 4
MaxColumn == 4
MaxTokens == 5
MaxLocLine == 2
MaxLocColumn == 3

----------------------------------------------------------------------------
(* JavaScript values.                                                      *)

Undef == <<"undefined">>
NoFilename == "<undefined>"
NoExc == [kind |-> "none"]
NoCall == [fn |-> "none"]

Min(a, b) == IF a < b THEN a ELSE b

\* The characters sources are drawn from: a word character, the two
\* indentation characters, the line feed, and a character no tokenizer accepts.
Alphabet == {"a", " ", "\t", "\n", "!"}
WordChars == {"a"}

RECURSIVE StringsUpTo(_)
StringsUpTo(n) ==
  IF n = 0 THEN {<<>>}
  ELSE LET shorter == StringsUpTo(n - 1)
       IN  shorter \cup {Append(s, c) : s \in {t \in shorter : Len(t) = n - 1}, c \in Alphabet}

\* str.substr(from) and str.substr(0, len), 0-based as in JavaScript.
SubstrFrom(str, from) == SubSeq(str, from + 1, Len(str))
SubstrTo(str, len) == SubSeq(str, 1, Min(len, Len(str)))

----------------------------------------------------------------------------
(* Constants of pug-lexer.                                                 *)

STATES == <<
  <<"blank", "eos", "doctype", "case", "when", "default", "tag", "fail">>
>>

STATE_FINISHED == -1
STATE_DEFAULT == 0
STATE_TAG == 1
STATE_INTERPOLATION == 2

NO_END_BRACKET == 0
INVALID_INDENTATION == 1
INCONSISTENT_INDENTATION == 2
UNEXPECTED_TEXT == 3

ERROR_MESSAGES == <<
  "The end input reached with no closing bracket",
  "Invalid indentation, you can use tabs or spaces but not both",
  "Inconsistent indentation",
  "Unexpected text"
>>

\* The methods the Lexer class defines: this[name] is undefined for any other name.
LexerMethods == {
  "advance", "blank", "endInterpolation", "eos", "error", "fail", "getTokens",
  "incrementLine", "outdent", "push", "tag", "tok", "tokFromRegex"
}

\* The identifiers bound where tok() evaluates its object literal: the
\* module's top-level bindings and tok's own parameters and local.
TokScope == {
  "PugError", "STATES", "STATE_FINISHED", "STATE_DEFAULT", "STATE_TAG",
  "STATE_INTERPOLATION", "NO_END_BRACKET", "INVALID_INDENTATION",
  "INCONSISTENT_INDENTATION", "UNEXPECTED_TEXT", "ERROR_MESSAGES", "REGEX",
  "Lexer", "module", "require", "type", "addl", "result"
}

\* REGEX.blank = /^[ \t]*\n/
RegexBlank(str) ==
  \E k \in 0..(Len(str) - 1) :
    /\ \A j \in 1..k : str[j] \in {" ", "\t"}
    /\ str[k + 1] = "\n"

\* REGEX.indentChar = /^( |\t)/
RegexIndentChar(str) == Len(str) >= 1 /\ str[1] \in {" ", "\t"}

\* REGEX.tag = /^(\w(?:[-:\w]*\w)?)/ : it matches exactly when the first
\* character is a word character.
RegexTag(str) == Len(str) >= 1 /\ str[1] \in WordChars

----------------------------------------------------------------------------
(* pug-error: makeError(code, message, options) builds the error object    *)
(* from options.line, options.column, options.filename and options.src.    *)

MakeError(code, message, options) ==
  LET base == [code |-> "PUG:" \o code,
               msg |-> message,
               line |-> options.line,
               filename |-> options.filename,
               src |-> options.src]
  IN  IF "column" \in DOMAIN options
      THEN base @@ [column |-> options.column]
      ELSE base

----------------------------------------------------------------------------
(* The Lexer.  Every method is an operator from the object's fields to     *)
(* [lx |-> the fields afterwards, ret |-> whether the returned value is    *)
(* truthy, exc |-> the exception thrown or NoExc].                         *)

Returns(s, truthy) == [lx |-> s, ret |-> truthy, exc |-> NoExc]
Throws(s, e) == [lx |-> s, ret |-> FALSE, exc |-> e]
TypeError(s) == Throws(s, [kind |-> "TypeError"])
ReferenceError(s) == Throws(s, [kind |-> "ReferenceError"])

\* str.replace(/\r\n|\r/g, "\n"), the second replace of the constructor
RECURSIVE ReplaceLineReturns(_)
ReplaceLineReturns(str) ==
  IF str = <<>> THEN <<>>
  ELSE IF str[1] = "\r"
       THEN IF Len(str) >= 2 /\ str[2] = "\n"
            THEN <<"\n">> \o ReplaceLineReturns(SubstrFrom(str, 2))
            ELSE <<"\n">> \o ReplaceLineReturns(SubstrFrom(str, 1))
       ELSE <<str[1]>> \o ReplaceLineReturns(SubstrFrom(str, 1))

\* str.replace(/^\uFEFF/, ""); the byte order mark is the character BOM.
BOM == "<U+FEFF>"
RemoveBOM(str) ==
  IF Len(str) >= 1 /\ str[1] = BOM THEN SubstrFrom(str, 1) ELSE str

\* str.split("\n"): always at least one element.
RECURSIVE SplitLines(_, _)
SplitLines(str, current) ==
  IF str = <<>> THEN <<current>>
  ELSE IF str[1] = "\n"
       THEN <<current>> \o SplitLines(SubstrFrom(str, 1), <<>>)
       ELSE SplitLines(SubstrFrom(str, 1), Append(current, str[1]))

\* new Lexer(str, options); an option of 0 stands for one that is not given.
Constructor(str, options) ==
  LET original == ReplaceLineReturns(RemoveBOM(str))
      lines == SplitLines(original, <<>>)
  IN  [original |-> original,
       lines |-> lines,
       line |-> lines[1],
       filename |-> options.filename,
       i |-> 0,
       indent |-> Undef,
       indentStr |-> Undef,
       indents |-> 0,
       lineIndex |-> IF options.startingLine # 0 THEN options.startingLine ELSE 1,
       columnIndex |-> IF options.startingColumn # 0 THEN options.startingColumn ELSE 1,
       tokens |-> <<>>,
       state |-> STATE_DEFAULT,
       states |-> <<STATE_DEFAULT>>]

\* error(code): the position is passed to pug-error as `line` and `col`.
Error(s, code) ==
  Throws(s, [kind |-> "PugError",
             err |-> MakeError(ToString(code), ERROR_MESSAGES[code + 1],
                               [line |-> s.lineIndex,
                                col |-> s.columnIndex,
                                filename |-> s.filename,
                                src |-> s.original])])

\* The object literal of tok(), given the value of the identifier `filename`.
TokLiteral(s, type, filename) ==
  [type |-> type,
   loc |-> [end |-> [line |-> s.lineIndex, col |-> s.columnIndex],
            filename |-> filename,
            start |-> [line |-> s.lineIndex, col |-> s.columnIndex]]]

\* tok(type, addl): the literal reads the identifier `filename`, which is
\* bound nowhere in scope, so evaluating it throws before a token exists.
\* On success `tok` is the token.
Tok(s, type, addl) ==
  IF "filename" \in TokScope
  THEN Returns(s, TRUE) @@ [tok |-> TokLiteral(s, type, s.filename) @@ addl]
  ELSE ReferenceError(s)

Push(s, token) == [s EXCEPT !.tokens = Append(@, token)]

\* for (; this.indents > floor; this.indents--) this.push(this.tok("outdent"))
\* as outdent() runs it, and with floor = 0 the while loop of eos().
RECURSIVE PushOutdents(_, _)
PushOutdents(s, floor) ==
  IF s.indents > floor
  THEN LET t == Tok(s, "outdent", <<>>)
       IN  IF t.exc # NoExc THEN Throws(s, t.exc)
           ELSE PushOutdents([Push(s, t.tok) EXCEPT !.indents = @ - 1], floor)
  ELSE Returns(s, TRUE)

\* outdent().  The loop of line 147 changes nothing its condition reads:
\* entered once, it never ends.
Outdent(s) ==
  LET len == Len(s.indent)
  IN  IF s.indent = Undef \/ s.line = Undef THEN TypeError(s)
      ELSE IF Len(s.line) > len /\ SubstrTo(s.line, len) = s.indent
           THEN Throws(s, [kind |-> "Diverges"])
           ELSE LET p == PushOutdents(s, 0)
                    s2 == [p.lx EXCEPT !.line = SubstrFrom(@, 0)]
                IN  IF p.exc # NoExc THEN p
                    ELSE IF RegexIndentChar(s2.line)
                         THEN Error(s2, INCONSISTENT_INDENTATION)
                         ELSE Returns(s2, TRUE)

\* incrementLine(lines)
IncrementLine(s, lines) ==
  LET rest == SubstrFrom(s.lines, lines)
      s1 == [s EXCEPT !.lines = rest,
                      !.line = IF rest = <<>> THEN Undef ELSE rest[1],
                      !.lineIndex = @ + lines,
                      !.columnIndex = 1]
  IN  IF s1.indentStr = Undef THEN TypeError(s1)
      ELSE
        LET len == Len(s1.indentStr)
            short == s1.indents # 0 /\ (Len(s1.line) < len \/ SubstrTo(s1.line, len) # s1.indentStr)
            blankLine == \A j \in 1..Len(s1.line) : s1.line[j] \in {" ", "\t"}
            o == IF short /\ ~blankLine THEN Outdent(s1)
                 ELSE IF short
                      THEN Returns([s1 EXCEPT !.columnIndex = Len(s1.line), !.line = <<>>], TRUE)
                      ELSE Returns(s1, TRUE)
            len2 == IF o.lx.indentStr = Undef THEN 0 ELSE Len(o.lx.indentStr)
        IN  IF s1.line = Undef THEN TypeError(s1)
            ELSE IF o.exc # NoExc THEN o
            ELSE Returns([o.lx EXCEPT !.line = SubstrTo(@, len2),
                                      !.columnIndex = @ + len2], TRUE)

\* blank()
Blank(s) ==
  IF s.lines = <<>> THEN TypeError(s)
  ELSE IF RegexBlank(s.lines[1]) THEN IncrementLine(s, 1)
  ELSE Returns(s, FALSE)

\* eos()
Eos(s) ==
  IF Len(s.lines) # 0 THEN Returns(s, FALSE)
  ELSE IF s.state = STATE_INTERPOLATION THEN Error(s, NO_END_BRACKET)
  ELSE LET p == PushOutdents(s, 0)
           t == Tok(p.lx, "eos", <<>>)
       IN  IF p.exc # NoExc THEN p
           ELSE IF t.exc # NoExc THEN Throws(p.lx, t.exc)
           ELSE Returns([Push(p.lx, t.tok) EXCEPT !.state = STATE_FINISHED], TRUE)

\* fail()
Fail(s) == Error(s, UNEXPECTED_TEXT)

\* tag(): a match returns true and changes nothing.
Tag(s) ==
  IF s.line = Undef THEN Returns(s, FALSE)
  ELSE IF RegexTag(s.line) THEN Returns(s, TRUE)
  ELSE Returns(s, FALSE)

\* this[tokenizer](), for a tokenizer the class defines.
CallTokenizer(s, tokenizer) ==
  CASE tokenizer = "blank" -> Blank(s)
    [] tokenizer = "eos" -> Eos(s)
    [] tokenizer = "tag" -> Tag(s)
    [] tokenizer = "fail" -> Fail(s)
    [] OTHER -> Returns(s, FALSE)

\* tokenizers.find(tokenizer => this[tokenizer] && this[tokenizer]())
RECURSIVE Find(_, _)
Find(s, tokenizers) ==
  IF tokenizers = <<>> THEN Returns(s, FALSE)
  ELSE IF tokenizers[1] \notin LexerMethods THEN Find(s, Tail(tokenizers))
  ELSE LET r == CallTokenizer(s, tokenizers[1])
       IN  IF r.exc # NoExc \/ r.ret THEN r
           ELSE Find(r.lx, Tail(tokenizers))

\* advance(): STATES[this.state] is undefined for a state the table lacks.
Advance(s) ==
  IF (s.state + 1) \notin DOMAIN STATES THEN TypeError(s)
  ELSE Find(s, STATES[s.state + 1])

\* Whether every tokenizer of the mode before `fail` declines.
RECURSIVE NoTokenizerMatches(_, _)
NoTokenizerMatches(s, tokenizers) ==
  \/ tokenizers = <<>>
  \/ tokenizers[1] = "fail"
  \/ /\ \/ tokenizers[1] \notin LexerMethods
        \/ LET r == CallTokenizer(s, tokenizers[1]) IN r.exc = NoExc /\ ~r.ret
     /\ NoTokenizerMatches(s, Tail(tokenizers))

----------------------------------------------------------------------------
(* The Parser.  `p` holds the Parser object: toks is this.tokens (the      *)
(* TokenStream, as the tokens not yet consumed, a deferred token in        *)
(* front), inMixin, plugins, filename and src are the fields of the same   *)
(* name.  exc is the exception thrown: once it is set the parse is over    *)
(* and every production returns at once.  pending counts the deferred      *)
(* tokens not yet consumed, maxPending is the most that were pending at    *)
(* once, and written lists the assignments the parser has made to a field  *)
(* of an input token: the token as it was given, and the loc assigned.     *)
(*                                                                         *)
(* A node or a token is a record.  A `loc` that is undefined is NoLoc, a   *)
(* node that is undefined is UndefinedNode, null is Null.  A production    *)
(* returns [p |-> the parser afterwards, node |-> its value].              *)

HALT == "<halt>"
NoLoc == [undefined |-> TRUE]
Null == [type |-> "<null>", loc |-> NoLoc]
UndefinedNode == [type |-> "<undefined>", loc |-> NoLoc]
NoToken == [type |-> "<undefined>", val |-> "", loc |-> NoLoc]

Max(a, b) == IF a > b THEN a ELSE b

\* tok[field], or `default` where the property is undefined.
Get(tok, field, default) == IF field \in DOMAIN tok THEN tok[field] ELSE default

\* new Parser(tokens, options)
NewParser(tokens, options) ==
  [toks |-> tokens,
   filename |-> options.filename,
   src |-> options.src,
   inMixin |-> 0,
   plugins |-> options.plugins,
   exc |-> NoExc,
   pending |-> 0,
   maxPending |-> 0,
   written |-> <<>>]

R(p, node) == [p |-> p, node |-> node]

Halted(p) == p.exc # NoExc
Throw(p, e) == IF Halted(p) THEN p ELSE [p EXCEPT !.exc = e]
PlainError(p, message) == Throw(p, [kind |-> "Error", msg |-> message])
ParserTypeError(p) == Throw(p, [kind |-> "TypeError"])

\* error(code, message, token) reading the end of the token for the column.
ParserErrorAtEnd(p, code, message, token) ==
  Throw(p, [kind |-> "PugError",
            err |-> MakeError(code, message,
                              [line |-> token.loc.end.line,
                               column |-> token.loc.end.column,
                               filename |-> token.loc.filename,
                               src |-> p.src])])

\* error(code, message, token)
ParserError(p, code, message, token) ==
  Throw(p, [kind |-> "PugError",
            err |-> MakeError(code, message,
                              [line |-> token.loc.start.line,
                               column |-> token.loc.start.column,
                               filename |-> token.loc.filename,
                               src |-> p.src])])

\* token-stream: peek() and advance() throw on an exhausted stream.
Halt(p) == PlainError(p, "Cannot read past the end of a stream")

\* this.peek().type, or HALT when the parse is over or peek() throws.
T(p) == IF Halted(p) \/ p.toks = <<>> THEN HALT ELSE p.toks[1].type

\* peek(), where T(p) is not HALT
Peek(p) == p.toks[1]

\* advance(), where T(p) is not HALT
ParserAdvance(p) ==
  [p EXCEPT !.toks = Tail(@), !.pending = IF @ > 0 THEN @ - 1 ELSE 0]

\* token-stream: defer(token) puts the token in front of the stream.
Defer(p, token) ==
  [p EXCEPT !.toks = <<token>> \o @,
            !.pending = @ + 1,
            !.maxPending = Max(@, p.pending + 1)]

\* addChildLocs without its two comparisons: the start of the parent and the
\* end of the child, as `r` is first built.
AddChildLocsUnordered(parent, child) ==
  IF parent = NoLoc /\ child = NoLoc THEN NoLoc
  ELSE LET a == IF parent = NoLoc THEN child ELSE parent
           b == IF parent = NoLoc THEN child ELSE IF child = NoLoc THEN parent ELSE child
       IN  IF a.filename # b.filename THEN [mismatch |-> TRUE]
           ELSE [start |-> a.start, end |-> b.end, filename |-> a.filename]

\* addChildLocs without its comparison of the two file names.
AddChildLocsAnyFile(parent, child) ==
  IF parent = NoLoc /\ child = NoLoc THEN NoLoc
  ELSE LET a == IF parent = NoLoc THEN child ELSE parent
           b == IF parent = NoLoc THEN child ELSE IF child = NoLoc THEN parent ELSE child
       IN  [start |-> IF b.start.line < a.start.line
                         \/ (b.start.line = a.start.line /\ b.start.column < a.start.column)
                      THEN b.start ELSE a.start,
            end |-> IF b.end.line < a.end.line
                       \/ (b.end.line = a.end.line /\ b.end.column < a.end.column)
                    THEN a.end ELSE b.end,
            filename |-> a.filename]

\* addChildLocs(parent, child): the location, NoLoc for undefined, or
\* LocMismatch where it throws.
LocMismatch == [mismatch |-> TRUE]
Before(a, b) == a.line < b.line \/ (a.line = b.line /\ a.column < b.column)
AddChildLocs(parent, child) ==
  IF parent = NoLoc /\ child = NoLoc THEN NoLoc
  ELSE LET a == IF parent = NoLoc THEN child ELSE parent
           b == IF parent = NoLoc THEN child ELSE IF child = NoLoc THEN parent ELSE child
       IN  IF a.filename # b.filename THEN LocMismatch
           ELSE [start |-> IF Before(b.start, a.start) THEN b.start ELSE a.start,
                 end |-> IF Before(b.end, a.end) THEN a.end ELSE b.end,
                 filename |-> a.filename]

MismatchMessage == "Cannot join loc values from two different source files."

\* node.loc = this.addChildLocs(node.loc, loc)
JoinLoc(p, node, loc) ==
  LET j == AddChildLocs(node.loc, loc)
  IN  IF Halted(p) THEN R(p, node)
      ELSE IF j = LocMismatch THEN R(PlainError(p, MismatchMessage), node)
      ELSE R(p, [node EXCEPT !.loc = j])

\* addChild(parent, child, child_array), child_array being parent[array]
\* or, for "", not given.  The node returned is the parent afterwards.
AddChild(p, parent, child, array) ==
  LET j == JoinLoc(p, parent, child.loc)
  IN  IF Halted(p) THEN R(p, parent)
      ELSE IF child = UndefinedNode THEN R(ParserTypeError(p), parent)
      ELSE IF Halted(j.p) \/ array = "" THEN j
      ELSE R(j.p, [j.node EXCEPT ![array] = Append(@, child)])

\* addChildren(parent, children, child_array)
RECURSIVE AddChildren(_, _, _, _)
AddChildren(p, parent, children, array) ==
  IF Halted(p) \/ children = <<>> THEN R(p, parent)
  ELSE LET a == AddChild(p, parent, children[1], array)
       IN  AddChildren(a.p, a.node, Tail(children), array)

\* emptyLoc(tok, loc): undefined when tok has a loc already.
EmptyLoc(tok, loc) ==
  IF tok.loc # NoLoc THEN UndefinedNode
  ELSE [tok EXCEPT !.loc = [start |-> loc.end, end |-> loc.end, filename |-> loc.filename]]

\* initBlock(nodes)
RECURSIVE InitBlockLoc(_, _, _)
InitBlockLoc(p, block, nodes) ==
  IF Halted(p) \/ nodes = <<>> THEN R(p, block)
  ELSE IF nodes[1] = UndefinedNode THEN R(ParserTypeError(p), block)
  ELSE LET j == JoinLoc(p, block, nodes[1].loc)
       IN  InitBlockLoc(j.p, j.node, Tail(nodes))

InitBlock(p, nodes) ==
  InitBlockLoc(p, [type |-> "Block", nodes |-> nodes, loc |-> NoLoc], nodes)

\* emptyBlock()
EmptyBlock == [type |-> "Block", nodes |-> <<>>, loc |-> NoLoc]

\* expect(type): [p, tok]
Expect(p, type) ==
  IF T(p) = HALT THEN [p |-> Halt(p), tok |-> NoToken]
  ELSE IF T(p) = type THEN [p |-> ParserAdvance(p), tok |-> Peek(p)]
  ELSE [p |-> ParserError(p, "INVALID_TOKEN",
                          "expected \"" \o type \o "\", but got \"" \o T(p) \o "\"", Peek(p)),
        tok |-> NoToken]

\* accept(type): [p, tok], tok being NoToken for undefined
Accept(p, type) ==
  IF T(p) = HALT THEN [p |-> Halt(p), tok |-> NoToken]
  ELSE IF T(p) = type THEN [p |-> ParserAdvance(p), tok |-> Peek(p)]
  ELSE [p |-> p, tok |-> NoToken]

\* A plugin is the set of <<context, token type>> pairs it has a handler for.
\* A handler takes the token it is called for (where the parser has not
\* consumed it yet) and returns a node at the token's place.
PluginConsumes(context) == context \notin {"blockCodeTokens", "textBlockTokens"}

\* runPlugin(context, tok, ...): node is UndefinedNode where no plugin handles tok.
RunPlugin(p, context, tok) ==
  LET claiming == {i \in 1..Len(p.plugins) : <<context, tok.type>> \in p.plugins[i]}
  IN  IF Halted(p) THEN R(p, UndefinedNode)
      ELSE IF Cardinality(claiming) >= 2
           THEN R(PlainError(p, "Multiple plugin handlers found for context "
                                \o context \o ", token type " \o tok.type), UndefinedNode)
      ELSE IF claiming = {} THEN R(p, UndefinedNode)
      ELSE R(IF PluginConsumes(context) THEN ParserAdvance(p) ELSE p,
             [type |-> "Plugin", loc |-> tok.loc])

\* node[field] = value
Set(node, field, value) ==
  [f \in DOMAIN node \cup {field} |-> IF f = field THEN value ELSE node[f]]

\* var v = <the value>; <what follows>
Bind(v, F(_)) == F(v)

\* parseDoctype()
ParseDoctype(p) ==
  LET e == Expect(p, "doctype")
  IN  IF Halted(e.p) THEN R(e.p, UndefinedNode)
      ELSE R(e.p, [type |-> "Doctype", val |-> e.tok.val, loc |-> e.tok.loc])

\* str.trim(), the white space being the space
RECURSIVE TrimLeft(_)
TrimLeft(str) == IF str # <<>> /\ str[1] = " " THEN TrimLeft(Tail(str)) ELSE str
RECURSIVE TrimRight(_)
TrimRight(str) ==
  IF str # <<>> /\ str[Len(str)] = " " THEN TrimRight(SubSeq(str, 1, Len(str) - 1)) ELSE str
Trim(str) == TrimRight(TrimLeft(str))

\* /\.jade$/.test(path) and /\.pug$/.test(path)
EndsWith(str, suffix) ==
  Len(str) >= Len(suffix) /\ SubSeq(str, Len(str) - Len(suffix) + 1, Len(str)) = suffix
DotJade == <<".", "j", "a", "d", "e">>
DotPug == <<".", "p", "u", "g">>

\* parseExtends()
ParseExtends(p) ==
  LET e == Expect(p, "extends")
      f == Expect(e.p, "path")
      loc == AddChildLocs(e.tok.loc, f.tok.loc)
  IN  IF Halted(f.p) THEN R(f.p, UndefinedNode)
      ELSE IF loc = LocMismatch THEN R(PlainError(f.p, MismatchMessage), UndefinedNode)
      ELSE R(f.p, [type |-> "Extends",
                   file |-> [type |-> "FileReference", path |-> Trim(f.tok.val),
                             loc |-> f.tok.loc],
                   loc |-> loc])

\* parseMixinBlock() without its test of inMixin.
ParseMixinBlockAnywhere(p) ==
  LET e == Expect(p, "mixin-block")
  IN  IF Halted(e.p) THEN R(e.p, UndefinedNode)
      ELSE R(e.p, [type |-> "MixinBlock", loc |-> e.tok.loc])

\* parseMixinBlock()
ParseMixinBlock(p) ==
  LET e == Expect(p, "mixin-block")
  IN  IF Halted(e.p) THEN R(e.p, UndefinedNode)
      ELSE IF e.p.inMixin = 0
           THEN R(ParserError(e.p, "BLOCK_OUTISDE_MIXIN",
                    "Anonymous blocks are not allowed unless they are part of a mixin.",
                    e.tok),
                  UndefinedNode)
      ELSE R(e.p, [type |-> "MixinBlock", loc |-> e.tok.loc])

\* parseYield()
ParseYield(p) ==
  LET e == Expect(p, "yield")
  IN  IF Halted(e.p) THEN R(e.p, UndefinedNode)
      ELSE R(e.p, [type |-> "YieldBlock", loc |-> e.tok.loc])

\* attributeNames: an array, or undefined where attrs() is called without it
NoNames == [defined |-> FALSE, list |-> <<>>]
Names(list) == [defined |-> TRUE, list |-> list]
InSeq(x, seq) == \E i \in 1..Len(seq) : seq[i] = x

\* attrs(parent, attributeNames): the loop of lines 1185-1199 and what
\* follows it, tok being the token advance() returned last.
\* [p, attrs, parent, names]
RECURSIVE AttrsLoop(_, _, _, _, _)
AttrsLoop(p, tok, attrs, parent, names) ==
  LET out(q, par) == [p |-> q, attrs |-> attrs, parent |-> par, names |-> names]
      checked == tok.name # "class" /\ names.defined
      names2 == IF checked THEN Names(Append(names.list, tok.name)) ELSE names
      attr == [name |-> tok.name,
               val |-> tok.val,
               mustEscape |-> Get(tok, "mustEscape", TRUE) # FALSE,
               loc |-> tok.loc]
      d == Defer(p, tok)
      e == Expect(d, "end-attributes")
      j == JoinLoc(e.p, parent, tok.loc)
  IN  IF Halted(p) THEN out(p, parent)
      ELSE IF tok.type = "attribute"
           THEN IF checked /\ InSeq(tok.name, names.list)
                THEN out(ParserError(p, "DUPLICATE_ATTRIBUTE",
                           "Duplicate attribute \"" \o tok.name \o "\" is not allowed.", tok),
                         parent)
                ELSE IF T(p) = HALT THEN out(Halt(p), parent)
                ELSE AttrsLoop(ParserAdvance(p), Peek(p), Append(attrs, attr), parent, names2)
      ELSE out(j.p, j.node)

\* attrs(parent, attributeNames)
Attrs(p, parent, names) ==
  LET e == Expect(p, "start-attributes")
      halted(q) == [p |-> q, attrs |-> <<>>, parent |-> parent, names |-> names]
  IN  IF Halted(e.p) THEN halted(e.p)
      ELSE IF T(e.p) = HALT THEN halted(Halt(e.p))
      ELSE AttrsLoop(ParserAdvance(e.p), Peek(e.p), <<>>, parent, names)

\* attrs(tok), tok being the `filter` token: its loc is assigned (line 1202).
\* [p, attrs, tok]
FilterAttrs(p, tok) ==
  IF T(p) = HALT THEN [p |-> Halt(p), attrs |-> <<>>, tok |-> tok]
  ELSE IF T(p) # "start-attributes" THEN [p |-> p, attrs |-> <<>>, tok |-> tok]
  ELSE Bind(Attrs(p, tok, NoNames), LAMBDA a :
         IF Halted(a.p) THEN [p |-> a.p, attrs |-> <<>>, tok |-> tok]
         ELSE [p |-> [a.p EXCEPT !.written = Append(@, [token |-> tok, loc |-> a.parent.loc])],
               attrs |-> a.attrs,
               tok |-> a.parent])

\* parseIncludeFilter()
ParseIncludeFilter(p) ==
  LET e == Expect(p, "filter")
  IN  IF Halted(e.p) THEN R(e.p, UndefinedNode)
      ELSE Bind(FilterAttrs(e.p, e.tok), LAMBDA a :
             IF Halted(a.p) THEN R(a.p, UndefinedNode)
             ELSE R(a.p, [type |-> "IncludeFilter", name |-> a.tok.val, attrs |-> a.attrs,
                          loc |-> a.tok.loc]))

\* this[method](...): a method of the parser called by a method.  `args` is
\* what the method takes, <<>> where it takes nothing.
RECURSIVE Call(_, _, _)

\* The loop of parse() ending at the first `newline` as it does at `eos`.
RECURSIVE ParseLoopFirstLine(_, _)
ParseLoopFirstLine(p, block) ==
  LET t == T(p)
  IN  IF t = HALT THEN R(Halt(p), block)
      ELSE IF t \in {"eos", "newline"} THEN R(p, block)
      ELSE IF t = "text-html"
           THEN Bind(Call("parseTextHtml", p, <<>>), LAMBDA r :
                  LET a == AddChildren(r.p, block, r.nodes, "nodes")
                  IN  ParseLoopFirstLine(a.p, a.node))
           ELSE Bind(Call("parseExpr", p, <<>>), LAMBDA r :
                  LET a == AddChild(r.p, block, r.node, "nodes")
                  IN  ParseLoopFirstLine(a.p, a.node))

\* parse(): the loop of lines 191-199
RECURSIVE ParseLoop(_, _)
ParseLoop(p, block) ==
  LET t == T(p)
  IN  IF t = HALT THEN R(Halt(p), block)
      ELSE IF t = "eos" THEN R(p, block)
      ELSE IF t = "newline" THEN ParseLoop(ParserAdvance(p), block)
      ELSE IF t = "text-html"
           THEN Bind(Call("parseTextHtml", p, <<>>), LAMBDA r :
                  LET a == AddChildren(r.p, block, r.nodes, "nodes")
                  IN  ParseLoop(a.p, a.node))
           ELSE Bind(Call("parseExpr", p, <<>>), LAMBDA r :
                  LET a == AddChild(r.p, block, r.node, "nodes")
                  IN  ParseLoop(a.p, a.node))

\* parse()
Parse(p) ==
  Bind(ParseLoop(p, EmptyBlock), LAMBDA r :
    IF Halted(r.p) \/ r.node.loc # NoLoc THEN r
    ELSE R(r.p, [r.node EXCEPT !.loc = [start |-> [line |-> 1, column |-> 1],
                                        filename |-> "",
                                        end |-> [line |-> 1, column |-> 1]]]))

\* parseExpr()
ParseExpr(p) ==
  LET t == T(p)
  IN  CASE t = HALT -> R(Halt(p), UndefinedNode)
        [] t = "tag" -> Call("parseTag", p, <<>>)
        [] t = "mixin" -> Call("parseMixin", p, <<>>)
        [] t = "block" -> Call("parseBlock", p, <<>>)
        [] t = "mixin-block" -> Call("parseMixinBlock", p, <<>>)
        [] t = "case" -> Call("parseCase", p, <<>>)
        [] t = "extends" -> Call("parseExtends", p, <<>>)
        [] t = "include" -> Call("parseInclude", p, <<>>)
        [] t = "doctype" -> Call("parseDoctype", p, <<>>)
        [] t = "filter" -> Call("parseFilter", p, <<>>)
        [] t = "comment" -> Call("parseComment", p, <<>>)
        [] t \in {"text", "interpolated-code", "start-pug-interpolation"} -> Call("parseText", p, TRUE)
        [] t = "text-html" -> Bind(Call("parseTextHtml", p, <<>>), LAMBDA r : InitBlock(r.p, r.nodes))
        [] t = "dot" -> Call("parseDot", p, <<>>)
        [] t = "each" -> Call("parseEach", p, <<>>)
        [] t = "code" -> Call("parseCode", p, FALSE)
        [] t = "blockcode" -> Call("parseBlockCode", p, <<>>)
        [] t = "if" -> Call("parseConditional", p, <<>>)
        [] t = "while" -> Call("parseWhile", p, <<>>)
        [] t = "call" -> Call("parseCall", p, <<>>)
        [] t = "interpolation" -> Call("parseInterpolation", p, <<>>)
        [] t = "yield" -> Call("parseYield", p, <<>>)
        [] t \in {"id", "class"} ->
             Call("parseExpr", Defer(p, [type |-> "tag", val |-> "div", loc |-> Peek(p).loc]), <<>>)
        [] OTHER ->
             LET r == RunPlugin(p, "expressionTokens", Peek(p))
             IN  IF Halted(r.p) \/ r.node # UndefinedNode THEN r
                 ELSE R(ParserError(p, "INVALID_TOKEN",
                                    "unexpected token \"" \o t \o "\"", Peek(p)),
                        UndefinedNode)

\* parseDot()
ParseDot(p) == Call("parseTextBlock", ParserAdvance(p), <<>>)

\* The Code node of an `interpolated-code` token (lines 376-383, 992-999).
InlineCode(tok) ==
  [type |-> "Code",
   val |-> tok.val,
   buffer |-> Get(tok, "buffer", FALSE),
   mustEscape |-> Get(tok, "mustEscape", TRUE) # FALSE,
   isInline |-> TRUE,
   loc |-> tok.loc]

TextNode(val, loc) == [type |-> "Text", val |-> val, loc |-> loc]

\* parseText(options): the loop of lines 363-407
RECURSIVE ParseTextLoop(_, _, _)
ParseTextLoop(p, tags, block) ==
  LET t == T(p)
      tok == Peek(p)
      q == ParserAdvance(p)
  IN  CASE t = HALT -> [p |-> Halt(p), tags |-> tags]
        [] t = "text" -> ParseTextLoop(q, Append(tags, TextNode(tok.val, tok.loc)), block)
        [] t = "interpolated-code" -> ParseTextLoop(q, Append(tags, InlineCode(tok)), block)
        [] t = "newline" ->
             IF ~block THEN [p |-> p, tags |-> tags]
             ELSE IF T(q) = HALT THEN [p |-> Halt(q), tags |-> tags]
             ELSE IF T(q) = "text"
                  THEN ParseTextLoop(q, Append(tags, TextNode("\n", tok.loc)), block)
                  ELSE ParseTextLoop(q, tags, block)
        [] t = "start-pug-interpolation" ->
             Bind(Call("parseExpr", q, <<>>), LAMBDA r :
               LET e == Expect(r.p, "end-pug-interpolation")
               IN  ParseTextLoop(e.p, Append(tags, r.node), block))
        [] OTHER ->
             LET r == RunPlugin(p, "textTokens", tok)
             IN  IF Halted(r.p) THEN [p |-> r.p, tags |-> tags]
                 ELSE IF r.node # UndefinedNode THEN ParseTextLoop(r.p, tags, block)
                 ELSE [p |-> p, tags |-> tags]

\* parseText(options), `block` being options.block
ParseText(p, block) ==
  Bind(ParseTextLoop(p, <<>>, block), LAMBDA r :
    IF Halted(r.p) THEN R(r.p, UndefinedNode)
    ELSE IF Len(r.tags) = 1 THEN R(r.p, r.tags[1])
    ELSE InitBlock(r.p, r.tags))

\* block.nodes.forEach(...) of lines 434-446: [nodes, cur]
RECURSIVE MergeHtml(_, _, _)
MergeHtml(children, nodes, cur) ==
  IF children = <<>> THEN [nodes |-> nodes, cur |-> cur]
  ELSE LET node == children[1]
       IN  IF Get(node, "isHtml", FALSE)
           THEN IF cur = 0
                THEN MergeHtml(Tail(children), Append(nodes, node), Len(nodes) + 1)
                ELSE MergeHtml(Tail(children),
                               [nodes EXCEPT ![cur].val = @ \o "\n" \o node.val], cur)
           ELSE MergeHtml(Tail(children), Append(nodes, node), 0)

\* parseTextHtml(): [p, nodes]; cur is the place of currentNode in nodes, 0 for null
RECURSIVE ParseTextHtmlLoop(_, _, _)
ParseTextHtmlLoop(p, nodes, cur) ==
  LET t == T(p)
      tok == Peek(p)
  IN  CASE t = HALT -> [p |-> Halt(p), nodes |-> nodes]
        [] t = "text-html" ->
             IF cur = 0
             THEN ParseTextHtmlLoop(ParserAdvance(p),
                    Append(nodes, [type |-> "Text", val |-> tok.val, loc |-> tok.loc,
                                   isHtml |-> TRUE]),
                    Len(nodes) + 1)
             ELSE ParseTextHtmlLoop(ParserAdvance(p),
                    [nodes EXCEPT ![cur].val = @ \o "\n" \o tok.val], cur)
        [] t = "indent" ->
             Bind(Call("block", p, <<>>), LAMBDA r :
               LET m == MergeHtml(r.node.nodes, nodes, cur)
               IN  IF Halted(r.p) THEN [p |-> r.p, nodes |-> nodes]
                   ELSE ParseTextHtmlLoop(r.p, m.nodes, m.cur))
        [] t = "code" ->
             Bind(Call("parseCode", p, TRUE), LAMBDA r :
               ParseTextHtmlLoop(r.p, Append(nodes, r.node), 0))
        [] t = "newline" -> ParseTextHtmlLoop(ParserAdvance(p), nodes, cur)
        [] OTHER -> [p |-> p, nodes |-> nodes]

ParseTextHtml(p) == ParseTextHtmlLoop(p, <<>>, 0)

\* parseBlockExpansion()
ParseBlockExpansion(p) ==
  LET a == Accept(p, ":")
  IN  IF Halted(a.p) THEN R(a.p, EmptyBlock)
      ELSE IF a.tok # NoToken
           THEN Bind(Call("parseExpr", a.p, <<>>), LAMBDA r : InitBlock(r.p, <<r.node>>))
      ELSE Call("block", p, <<>>)

\* The loop of parseCase() putting every When node in front of block.nodes.
RECURSIVE ParseCaseLoopPrepend(_, _)
ParseCaseLoopPrepend(p, block) ==
  LET t == T(p)
      front(r) ==
        LET j == JoinLoc(r.p, block, r.node.loc)
        IN  IF Halted(r.p) THEN R(r.p, block)
            ELSE R(j.p, [j.node EXCEPT !.nodes = <<r.node>> \o @])
  IN  CASE t = HALT -> R(Halt(p), block)
        [] t = "outdent" -> R(p, block)
        [] t \in {"comment", "newline"} -> ParseCaseLoopPrepend(ParserAdvance(p), block)
        [] t = "when" ->
             Bind(Call("parseWhen", p, <<>>), LAMBDA r :
               Bind(front(r), LAMBDA a : ParseCaseLoopPrepend(a.p, a.node)))
        [] t = "default" ->
             Bind(Call("parseDefault", p, <<>>), LAMBDA r :
               Bind(front(r), LAMBDA a : ParseCaseLoopPrepend(a.p, a.node)))
        [] OTHER ->
             R(ParserError(p, "INVALID_TOKEN",
                 "Unexpected token \"" \o t
                   \o "\", expected \"when\", \"default\" or \"newline\"", Peek(p)),
               block)

\* parseCase(): the loop of lines 486-504
RECURSIVE ParseCaseLoop(_, _)
ParseCaseLoop(p, block) ==
  LET t == T(p)
  IN  CASE t = HALT -> R(Halt(p), block)
        [] t = "outdent" -> R(p, block)
        [] t \in {"comment", "newline"} -> ParseCaseLoop(ParserAdvance(p), block)
        [] t = "when" ->
             Bind(Call("parseWhen", p, <<>>), LAMBDA r :
               LET a == AddChild(r.p, block, r.node, "nodes")
               IN  ParseCaseLoop(a.p, a.node))
        [] t = "default" ->
             Bind(Call("parseDefault", p, <<>>), LAMBDA r :
               LET a == AddChild(r.p, block, r.node, "nodes")
               IN  ParseCaseLoop(a.p, a.node))
        [] OTHER ->
             LET r == RunPlugin(p, "caseTokens", Peek(p))
             IN  IF Halted(r.p) THEN R(r.p, block)
                 ELSE IF r.node # UndefinedNode THEN ParseCaseLoop(r.p, block)
                 ELSE R(ParserError(p, "INVALID_TOKEN",
                          "Unexpected token \"" \o t
                            \o "\", expected \"when\", \"default\" or \"newline\"", Peek(p)),
                        block)

\* parseCase()
ParseCase(p) ==
  LET e == Expect(p, "case")
      tok == e.tok
      node == [type |-> "Case", expr |-> tok.val, loc |-> tok.loc]
      i == Expect(e.p, "indent")
  IN  Bind(ParseCaseLoop(i.p, EmptyBlock), LAMBDA l :
        LET o == Expect(l.p, "outdent")
            block == l.node
            a == AddChild(o.p, node, block, "")
        IN  IF Halted(o.p) THEN R(o.p, UndefinedNode)
            ELSE IF block.loc = NoLoc
                 THEN R(o.p, Set(node, "block", EmptyLoc(block, tok.loc)))
                 ELSE R(a.p, Set(a.node, "block", block)))

\* parseWhen()
ParseWhen(p) ==
  LET e == Expect(p, "when")
      tok == e.tok
      node == [type |-> "When", expr |-> tok.val, debug |-> FALSE, loc |-> tok.loc]
  IN  IF Halted(e.p) THEN R(e.p, UndefinedNode)
      ELSE IF T(e.p) = HALT THEN R(Halt(e.p), UndefinedNode)
      ELSE IF T(e.p) # "newline"
           THEN Bind(Call("parseBlockExpansion", e.p, <<>>), LAMBDA b :
                  LET a == AddChild(b.p, node, b.node, "")
                  IN  IF Halted(a.p) THEN R(a.p, UndefinedNode)
                      ELSE R(a.p, Set(a.node, "block", b.node)))
           ELSE R(e.p, node)

\* parseDefault()
ParseDefault(p) ==
  LET e == Expect(p, "default")
      node == [type |-> "When", expr |-> "default", debug |-> FALSE, loc |-> e.tok.loc]
  IN  Bind(Call("parseBlockExpansion", e.p, <<>>), LAMBDA b :
        LET a == AddChild(b.p, node, b.node, "")
        IN  IF Halted(a.p) THEN R(a.p, UndefinedNode)
            ELSE R(a.p, Set(a.node, "block", b.node)))

\* node.val.match(/^ *else/)
RECURSIVE MatchesElse(_)
MatchesElse(val) ==
  IF val # <<>> /\ val[1] = " " THEN MatchesElse(Tail(val))
  ELSE Len(val) >= 4 /\ SubSeq(val, 1, 4) = <<"e", "l", "s", "e">>

\* parseCode() without the test of tok.buffer before the block.
ParseCodeAnyBlock(p, noBlock) ==
  LET e == Expect(p, "code")
      tok == e.tok
      base == [type |-> "Code",
               val |-> tok.val,
               buffer |-> Get(tok, "buffer", FALSE),
               mustEscape |-> Get(tok, "mustEscape", TRUE) # FALSE,
               isInline |-> noBlock,
               loc |-> tok.loc]
      node == IF MatchesElse(tok.val) THEN Set(base, "debug", FALSE) ELSE base
  IN  IF Halted(e.p) THEN R(e.p, UndefinedNode)
      ELSE IF "mustEscape" \notin DOMAIN tok
           THEN R(Throw(e.p, [kind |-> "AssertionError",
                              msg |-> "Please update to the newest version of pug-lexer."]),
                  UndefinedNode)
      ELSE IF noBlock THEN R(e.p, node)
      ELSE IF T(e.p) = HALT THEN R(Halt(e.p), UndefinedNode)
      ELSE IF T(e.p) = "indent"
           THEN Bind(Call("block", e.p, <<>>), LAMBDA b :
                  LET a == AddChild(b.p, node, b.node, "")
                  IN  IF Halted(a.p) THEN R(a.p, UndefinedNode)
                      ELSE R(a.p, Set(a.node, "block", b.node)))
      ELSE R(e.p, node)

\* parseCode(noBlock)
ParseCode(p, noBlock) ==
  LET e == Expect(p, "code")
      tok == e.tok
      base == [type |-> "Code",
               val |-> tok.val,
               buffer |-> Get(tok, "buffer", FALSE),
               mustEscape |-> Get(tok, "mustEscape", TRUE) # FALSE,
               isInline |-> noBlock,
               loc |-> tok.loc]
      node == IF MatchesElse(tok.val) THEN Set(base, "debug", FALSE) ELSE base
  IN  IF Halted(e.p) THEN R(e.p, UndefinedNode)
      ELSE IF "mustEscape" \notin DOMAIN tok
           THEN R(Throw(e.p, [kind |-> "AssertionError",
                              msg |-> "Please update to the newest version of pug-lexer."]),
                  UndefinedNode)
      ELSE IF noBlock THEN R(e.p, node)
      ELSE IF T(e.p) = HALT THEN R(Halt(e.p), UndefinedNode)
      ELSE IF T(e.p) = "indent"
           THEN IF Get(tok, "buffer", FALSE)
                THEN R(ParserError(e.p, "BLOCK_IN_BUFFERED_CODE",
                                   "Buffered code cannot have a block attached to it",
                                   Peek(e.p)),
                       UndefinedNode)
                ELSE Bind(Call("block", e.p, <<>>), LAMBDA b :
                       LET a == AddChild(b.p, node, b.node, "")
                       IN  IF Halted(a.p) THEN R(a.p, UndefinedNode)
                           ELSE R(a.p, Set(a.node, "block", b.node)))
      ELSE R(e.p, node)

\* The consequent of lines 603-607 and 634-638: [p, node]
Consequent(p, node, anchor) ==
  IF T(p) = HALT THEN R(Halt(p), node)
  ELSE IF T(p) = "indent"
       THEN Bind(Call("block", p, <<>>), LAMBDA b :
              LET a == AddChild(b.p, node, b.node, "")
              IN  R(a.p, Set(a.node, "consequent", b.node)))
       ELSE R(p, Set(node, "consequent", EmptyLoc(EmptyBlock, anchor)))

\* The alternate parsed and joined to the node's loc, but never assigned to
\* node.alternate.
AlternateDropped(p, node) ==
  Bind(Call("parseConditionalElse", p, node), LAMBDA r :
    LET a == AddChild(r.p, r.parent, r.node, "")
    IN  IF Halted(r.p) THEN R(r.p, node)
        ELSE IF r.node # UndefinedNode THEN R(a.p, a.node)
        ELSE R(r.p, r.parent))

\* The alternate of lines 609-613 and 640-644: [p, node]
Alternate(p, node) ==
  Bind(Call("parseConditionalElse", p, node), LAMBDA r :
    LET a == AddChild(r.p, r.parent, r.node, "")
    IN  IF Halted(r.p) THEN R(r.p, node)
        ELSE IF r.node # UndefinedNode
             THEN R(a.p, [a.node EXCEPT !.alternate = r.node])
             ELSE R(r.p, r.parent))

\* parseConditional()
ParseConditional(p) ==
  LET e == Expect(p, "if")
      node == [type |-> "Conditional", test |-> e.tok.val, alternate |-> Null,
               loc |-> e.tok.loc]
  IN  IF Halted(e.p) THEN R(e.p, UndefinedNode)
      ELSE Bind(Consequent(e.p, node, node.loc), LAMBDA c :
             Bind(Alternate(c.p, c.node), LAMBDA r :
               IF Halted(r.p) THEN R(r.p, UndefinedNode) ELSE r))

RECURSIVE SkipNewlines(_)
SkipNewlines(p) == IF T(p) = "newline" THEN SkipNewlines(ParserAdvance(p)) ELSE p

\* parseConditionalElse(parent): [p, parent, node]; node is UndefinedNode
\* where the function returns undefined.
ParseConditionalElse(p0, parent) ==
  LET p == SkipNewlines(p0)
      t == T(p)
      tok == Peek(p)
      node == [type |-> "Conditional", test |-> tok.val, alternate |-> Null,
               loc |-> tok.loc]
      j == JoinLoc(ParserAdvance(p), parent, tok.loc)
  IN  CASE t = HALT -> [p |-> Halt(p), parent |-> parent, node |-> UndefinedNode]
        [] t = "else-if" ->
             Bind(Consequent(ParserAdvance(p), node, tok.loc), LAMBDA c :
               Bind(Alternate(c.p, c.node), LAMBDA r :
                 [p |-> r.p, parent |-> parent, node |-> r.node]))
        [] t = "else" ->
             IF T(j.p) = HALT THEN [p |-> Halt(j.p), parent |-> j.node, node |-> UndefinedNode]
             ELSE IF T(j.p) = "indent"
                  THEN Bind(Call("block", j.p, <<>>), LAMBDA b :
                         [p |-> b.p, parent |-> j.node, node |-> b.node])
             ELSE [p |-> j.p, parent |-> j.node, node |-> UndefinedNode]
        [] OTHER -> [p |-> p, parent |-> parent, node |-> UndefinedNode]

\* parseWhile()
ParseWhile(p) ==
  LET e == Expect(p, "while")
      node == [type |-> "While", test |-> e.tok.val, loc |-> e.tok.loc]
  IN  IF Halted(e.p) THEN R(e.p, UndefinedNode)
      ELSE IF T(e.p) = HALT THEN R(Halt(e.p), UndefinedNode)
      ELSE IF T(e.p) = "indent"
           THEN Bind(Call("block", e.p, <<>>), LAMBDA b :
                  IF Halted(b.p) THEN R(b.p, UndefinedNode)
                  ELSE R(b.p, Set(node, "block", b.node)))
           ELSE R(e.p, Set(node, "block", EmptyBlock))

\* parseBlockCode(): the loop of lines 687-705, [p, text, loc]
RECURSIVE BlockCodeLoop(_, _, _)
BlockCodeLoop(p, text, loc) ==
  LET t == T(p)
      tok == Peek(p)
      q == ParserAdvance(p)
      j == AddChildLocs(loc, tok.loc)
      r == RunPlugin(q, "blockCodeTokens", tok)
      out(pp) == [p |-> pp, text |-> text, loc |-> loc]
  IN  CASE t = HALT -> out(Halt(p))
        [] t = "end-pipeless-text" -> out(p)
        [] t \in {"text", "newline"} ->
             IF j = LocMismatch THEN out(PlainError(q, MismatchMessage))
             ELSE BlockCodeLoop(q, text \o (IF t = "text" THEN tok.val ELSE "\n"), j)
        [] OTHER ->
             IF Halted(r.p) THEN out(r.p)
             ELSE IF r.node # UndefinedNode THEN BlockCodeLoop(r.p, text \o "<plugin>", loc)
             ELSE out(ParserError(q, "INVALID_TOKEN", "Unexpected token type: " \o t, tok))

\* parseBlockCode()
ParseBlockCode(p) ==
  LET e == Expect(p, "blockcode")
      l == BlockCodeLoop(ParserAdvance(e.p), "", e.tok.loc)
      code(text, loc) == [type |-> "Code", val |-> text, buffer |-> FALSE,
                          mustEscape |-> FALSE, isInline |-> FALSE, loc |-> loc]
  IN  IF Halted(e.p) THEN R(e.p, UndefinedNode)
      ELSE IF T(e.p) = HALT THEN R(Halt(e.p), UndefinedNode)
      ELSE IF T(e.p) # "start-pipeless-text" THEN R(e.p, code("", e.tok.loc))
      ELSE IF Halted(l.p) THEN R(l.p, UndefinedNode)
      ELSE R(ParserAdvance(l.p), code(l.text, l.loc))

\* parseComment()
ParseComment(p) ==
  LET e == Expect(p, "comment")
      tok == e.tok
  IN  IF Halted(e.p) THEN R(e.p, UndefinedNode)
      ELSE Bind(Call("parseTextBlock", e.p, <<>>), LAMBDA b :
             LET loc == AddChildLocs(tok.loc, b.node.loc)
             IN  IF Halted(b.p) THEN R(b.p, UndefinedNode)
                 ELSE IF b.node = UndefinedNode
                      THEN R(b.p, [type |-> "Comment", val |-> tok.val,
                                   buffer |-> Get(tok, "buffer", FALSE), loc |-> tok.loc])
                 ELSE IF loc = LocMismatch
                      THEN R(PlainError(b.p, MismatchMessage), UndefinedNode)
                 ELSE R(b.p, [type |-> "BlockComment", val |-> tok.val, block |-> b.node,
                              buffer |-> Get(tok, "buffer", FALSE), loc |-> loc]))

\* parseFilter(): the block of lines 783-797, p being the parser after the
\* attributes
FilterBlock(p) ==
  LET t == T(p)
      textToken == Peek(p)
  IN  CASE t = "text" ->
             InitBlock(ParserAdvance(p), <<TextNode(textToken.val, textToken.loc)>>)
        [] t = "filter" ->
             Bind(Call("parseFilter", p, <<>>), LAMBDA inner : InitBlock(inner.p, <<inner.node>>))
        [] OTHER ->
             Bind(Call("parseTextBlock", p, <<>>), LAMBDA tb :
               IF tb.node = UndefinedNode THEN R(tb.p, EmptyBlock) ELSE tb)

\* parseFilter()
ParseFilter(p) ==
  LET e == Expect(p, "filter")
  IN  IF Halted(e.p) THEN R(e.p, UndefinedNode)
      ELSE Bind(FilterAttrs(e.p, e.tok), LAMBDA a :
             IF Halted(a.p) THEN R(a.p, UndefinedNode)
             ELSE IF T(a.p) = HALT THEN R(Halt(a.p), UndefinedNode)
             ELSE Bind(FilterBlock(a.p), LAMBDA b :
                    IF Halted(b.p) THEN R(b.p, UndefinedNode)
                    ELSE R(b.p, [type |-> "Filter", name |-> a.tok.val, block |-> b.node,
                                 attrs |-> a.attrs, loc |-> a.tok.loc])))

\* parseEach()
ParseEach(p) ==
  LET e == Expect(p, "each")
      tok == e.tok
      node == [type |-> "Each", obj |-> Get(tok, "code", ""), val |-> tok.val,
               key |-> Get(tok, "key", ""), loc |-> tok.loc]
  IN  IF Halted(e.p) THEN R(e.p, UndefinedNode)
      ELSE Bind(Call("block", e.p, <<>>), LAMBDA b :
             LET a == AddChild(b.p, node, b.node, "")
                 withBlock == Set(a.node, "block", b.node)
             IN  IF Halted(a.p) THEN R(a.p, UndefinedNode)
                 ELSE IF T(a.p) = HALT THEN R(Halt(a.p), UndefinedNode)
                 ELSE IF T(a.p) # "else" THEN R(a.p, withBlock)
                 ELSE Bind(Call("block", ParserAdvance(a.p), <<>>), LAMBDA alt :
                        LET c == AddChild(alt.p, withBlock, alt.node, "")
                        IN  IF Halted(c.p) THEN R(c.p, UndefinedNode)
                            ELSE R(c.p, Set(c.node, "alternate", alt.node))))

\* parseBlock()
ParseBlock(p) ==
  LET e == Expect(p, "block")
      tok == e.tok
  IN  IF Halted(e.p) THEN R(e.p, UndefinedNode)
      ELSE IF T(e.p) = HALT THEN R(Halt(e.p), UndefinedNode)
      ELSE Bind(IF T(e.p) = "indent" THEN Call("block", e.p, <<>>) ELSE R(e.p, EmptyBlock), LAMBDA b :
             LET named == [type |-> "NamedBlock", nodes |-> b.node.nodes,
                           loc |-> b.node.loc, name |-> Trim(tok.val),
                           mode |-> Get(tok, "mode", "")]
                 j == JoinLoc(b.p, named, tok.loc)
             IN  IF Halted(j.p) THEN R(j.p, UndefinedNode) ELSE j)

\* parseInclude(): the loop of lines 891-893, [p, filters]
RECURSIVE IncludeFilters(_, _)
IncludeFilters(p, filters) ==
  IF T(p) = HALT THEN [p |-> Halt(p), filters |-> filters]
  ELSE IF T(p) # "filter" THEN [p |-> p, filters |-> filters]
  ELSE Bind(ParseIncludeFilter(p), LAMBDA r :
         IncludeFilters(r.p, Append(filters, r.node)))

\* parseInclude() classifying by the path alone, the filters not looked at.
IncludePathAlone(tok, filters, path) ==
  LET q == path.p
      file == [type |-> "FileReference", loc |-> tok.loc, path |-> Trim(path.tok.val)]
      node == [type |-> "Include", file |-> file, loc |-> tok.loc]
  IN  IF Halted(q) THEN R(q, UndefinedNode)
      ELSE IF T(q) = HALT THEN R(Halt(q), UndefinedNode)
      ELSE IF EndsWith(file.path, DotJade) \/ EndsWith(file.path, DotPug)
           THEN Bind(IF T(q) = "indent" THEN Call("block", q, <<>>) ELSE R(q, EmptyBlock), LAMBDA b :
                  IF Halted(b.p) THEN R(b.p, UndefinedNode)
                  ELSE R(b.p, Set(node, "block", b.node)))
      ELSE IF T(q) = "indent"
           THEN R(ParserError(q, "RAW_INCLUDE_BLOCK", "Raw inclusion cannot contain a block",
                              Peek(q)),
                  UndefinedNode)
      ELSE R(q, Set([node EXCEPT !.type = "RawInclude"], "filters", filters))

\* parseInclude(): lines 894-913, tok being the `include` token, filters
\* the include filters and path what expect('path') gave
IncludePath(tok, filters, path) ==
  LET q == path.p
      file == [type |-> "FileReference", loc |-> tok.loc, path |-> Trim(path.tok.val)]
      node == [type |-> "Include", file |-> file, loc |-> tok.loc]
  IN  IF Halted(q) THEN R(q, UndefinedNode)
      ELSE IF T(q) = HALT THEN R(Halt(q), UndefinedNode)
      ELSE IF (EndsWith(file.path, DotJade) \/ EndsWith(file.path, DotPug)) /\ filters = <<>>
           THEN Bind(IF T(q) = "indent" THEN Call("block", q, <<>>) ELSE R(q, EmptyBlock), LAMBDA b :
                  IF Halted(b.p) THEN R(b.p, UndefinedNode)
                  ELSE R(b.p, Set(node, "block", b.node)))
      ELSE IF T(q) = "indent"
           THEN R(ParserError(q, "RAW_INCLUDE_BLOCK", "Raw inclusion cannot contain a block",
                              Peek(q)),
                  UndefinedNode)
      ELSE R(q, Set([node EXCEPT !.type = "RawInclude"], "filters", filters))

\* parseInclude()
ParseInclude(p) ==
  LET e == Expect(p, "include")
  IN  Bind(IncludeFilters(e.p, <<>>), LAMBDA f :
        IncludePath(e.tok, f.filters, Expect(f.p, "path")))

\* parseCall(); tag() leaves mixin.code unset
ParseCall(p) ==
  LET e == Expect(p, "call")
      tok == e.tok
      mixin == [type |-> "Mixin", name |-> tok.val, args |-> Get(tok, "args", ""),
                block |-> EmptyBlock, call |-> TRUE, attrs |-> <<>>,
                attributeBlocks |-> <<>>, loc |-> tok.loc]
  IN  IF Halted(e.p) THEN R(e.p, UndefinedNode)
      ELSE Bind(Call("tag", e.p, <<mixin, FALSE>>), LAMBDA r :
             IF Halted(r.p) THEN R(r.p, UndefinedNode)
             ELSE IF r.node.block.nodes = <<>> THEN R(r.p, [r.node EXCEPT !.block = Null])
             ELSE r)

\* parseMixin()
ParseMixin(p) ==
  LET e == Expect(p, "mixin")
      tok == e.tok
  IN  IF Halted(e.p) THEN R(e.p, UndefinedNode)
      ELSE IF T(e.p) = HALT THEN R(Halt(e.p), UndefinedNode)
      ELSE IF T(e.p) = "indent"
           THEN Bind(Call("block", [e.p EXCEPT !.inMixin = @ + 1], <<>>), LAMBDA b :
                  IF Halted(b.p) THEN R(b.p, UndefinedNode)
                  ELSE R([b.p EXCEPT !.inMixin = @ - 1],
                         [type |-> "Mixin", name |-> tok.val,
                          args |-> Get(tok, "args", ""),
                          block |-> b.node, call |-> FALSE, loc |-> tok.loc]))
      ELSE R(ParserError(e.p, "MIXIN_WITHOUT_BODY",
                         "Mixin " \o tok.val \o " declared without body", tok),
             UndefinedNode)

\* parseTextBlock(): the loop of lines 978-1006 and the advance() after it
RECURSIVE ParseTextBlockLoop(_, _)
ParseTextBlockLoop(p, block) ==
  LET t == T(p)
      tok == Peek(p)
      q == ParserAdvance(p)
      child == CASE t = "text" -> TextNode(tok.val, tok.loc)
                 [] t = "newline" -> TextNode("\n", tok.loc)
                 [] OTHER -> InlineCode(tok)
      a == AddChild(q, block, child, "nodes")
      r == RunPlugin(q, "textBlockTokens", tok)
  IN  CASE t = HALT -> R(Halt(p), block)
        [] t = "end-pipeless-text" -> R(q, block)
        [] t \in {"text", "newline", "interpolated-code"} -> ParseTextBlockLoop(a.p, a.node)
        [] t = "start-pug-interpolation" ->
             Bind(Call("parseExpr", q, <<>>), LAMBDA x :
               LET xa == AddChild(x.p, block, x.node, "nodes")
                   xe == Expect(xa.p, "end-pug-interpolation")
               IN  ParseTextBlockLoop(xe.p, xa.node))
        [] OTHER ->
             IF Halted(r.p) THEN R(r.p, block)
             ELSE IF r.node # UndefinedNode THEN ParseTextBlockLoop(r.p, block)
             ELSE R(ParserError(q, "INVALID_TOKEN", "Unexpected token type: " \o t, tok),
                    block)

\* parseTextBlock(): the node is UndefinedNode where it returns undefined
ParseTextBlock(p) ==
  LET a == Accept(p, "start-pipeless-text")
  IN  IF Halted(a.p) \/ a.tok = NoToken THEN R(a.p, UndefinedNode)
      ELSE Bind(ParseTextBlockLoop(a.p, EmptyBlock), LAMBDA l :
             IF Halted(l.p) THEN R(l.p, UndefinedNode) ELSE l)

\* block(): the loop of lines 1018-1026 and the expect('outdent') after it
RECURSIVE BlockLoop(_, _)
BlockLoop(p, block) ==
  LET t == T(p)
  IN  CASE t = HALT -> R(Halt(p), block)
        [] t = "outdent" -> R(ParserAdvance(p), block)
        [] t = "newline" -> BlockLoop(ParserAdvance(p), block)
        [] t = "text-html" ->
             Bind(Call("parseTextHtml", p, <<>>), LAMBDA h :
               LET ha == AddChildren(h.p, block, h.nodes, "nodes")
               IN  BlockLoop(ha.p, ha.node))
        [] OTHER ->
             Bind(Call("parseExpr", p, <<>>), LAMBDA x :
               LET xa == AddChild(x.p, block, x.node, "nodes")
               IN  BlockLoop(xa.p, xa.node))

\* block()
Block(p) ==
  LET e == Expect(p, "indent")
  IN  IF Halted(e.p) THEN R(e.p, EmptyBlock) ELSE BlockLoop(e.p, EmptyBlock)

\* ./lib/inline-tags
InlineTags ==
  {"a", "abbr", "acronym", "b", "br", "code", "em", "font", "i", "img", "ins", "kbd",
   "map", "samp", "small", "span", "strong", "sub", "sup"}

\* parseInterpolation()
ParseInterpolation(p) ==
  LET tok == Peek(p)
      tag == [type |-> "InterpolatedTag", expr |-> tok.val, selfClosing |-> FALSE,
              block |-> EmptyBlock, attrs |-> <<>>, attributeBlocks |-> <<>>,
              isInline |-> FALSE, loc |-> tok.loc]
  IN  IF T(p) = HALT THEN R(Halt(p), UndefinedNode)
      ELSE Call("tag", ParserAdvance(p), <<tag, TRUE>>)

\* parseTag() reading its token with peek(), the token left in the stream.
ParseTagPeeked(p) ==
  LET tok == Peek(p)
      tag == [type |-> "Tag", name |-> tok.val, selfClosing |-> FALSE,
              block |-> EmptyBlock, attrs |-> <<>>, attributeBlocks |-> <<>>,
              isInline |-> tok.val \in InlineTags, loc |-> tok.loc]
  IN  IF T(p) = HALT THEN R(Halt(p), UndefinedNode)
      ELSE Call("tag", p, <<tag, TRUE>>)

\* parseTag()
ParseTag(p) ==
  LET tok == Peek(p)
      tag == [type |-> "Tag", name |-> tok.val, selfClosing |-> FALSE,
              block |-> EmptyBlock, attrs |-> <<>>, attributeBlocks |-> <<>>,
              isInline |-> tok.val \in InlineTags, loc |-> tok.loc]
  IN  IF T(p) = HALT THEN R(Halt(p), UndefinedNode)
      ELSE Call("tag", ParserAdvance(p), <<tag, TRUE>>)

\* tag(tag, options): the loop of lines 1080-1115, attributeNames being `names`
RECURSIVE TagAttributes(_, _, _)
TagAttributes(p, tag, names) ==
  LET t == T(p)
      tok == Peek(p)
      q == ParserAdvance(p)
      attr == [name |-> tok.type, val |-> "'" \o tok.val \o "'", mustEscape |-> FALSE,
               loc |-> tok.loc]
      a == AddChild(q, tag, attr, "attrs")
      j == JoinLoc(q, tag, tok.loc)
      r == RunPlugin(p, "tagAttributeTokens", tok)
  IN  CASE t = HALT -> R(Halt(p), tag)
        [] t \in {"id", "class"} ->
             IF t = "id" /\ InSeq("id", names)
             THEN R(ParserError(q, "DUPLICATE_ID",
                                "Duplicate attribute \"id\" is not allowed.", tok), tag)
             ELSE TagAttributes(a.p, a.node, IF t = "id" THEN Append(names, "id") ELSE names)
        [] t = "start-attributes" ->
             Bind(Attrs(p, tag, Names(names)), LAMBDA at :
               LET ats == AddChildren(at.p, at.parent, at.attrs, "attrs")
               IN  TagAttributes(ats.p, ats.node, at.names.list))
        [] t = "&attributes" ->
             TagAttributes(j.p, [j.node EXCEPT !.attributeBlocks = Append(@, tok.val)], names)
        [] OTHER ->
             IF Halted(r.p) THEN R(r.p, tag)
             ELSE IF r.node # UndefinedNode THEN TagAttributes(r.p, tag, names)
             ELSE R(p, tag)

\* tag(tag, options): the check of the immediate '.', lines 1118-1121
TagDot(p, tag) ==
  IF T(p) = HALT THEN R(Halt(p), tag)
  ELSE IF T(p) = "dot" THEN R(ParserAdvance(p), Set(tag, "textOnly", TRUE))
  ELSE R(p, tag)

\* tag(tag, options): the switch of lines 1124-1155 (the message is quoted
\* with ' where the source quotes with a backquote)
TagContent(p, tag, selfClosingAllowed) ==
  LET t == T(p)
      tok == Peek(p)
      q == ParserAdvance(p)
      r == RunPlugin(p, "tagTokens", tok)
  IN  CASE t = HALT -> R(Halt(p), tag)
        [] t \in {"text", "interpolated-code"} ->
             Bind(Call("parseText", p, FALSE), LAMBDA text :
               LET ta == IF text.node.type = "Block"
                         THEN AddChildren(text.p, tag.block, text.node.nodes, "nodes")
                         ELSE AddChild(text.p, tag.block, text.node, "nodes")
               IN  R(ta.p, [tag EXCEPT !.block = ta.node]))
        [] t = "code" ->
             Bind(Call("parseCode", p, TRUE), LAMBDA code :
               LET ca == AddChild(code.p, tag.block, code.node, "nodes")
               IN  R(ca.p, [tag EXCEPT !.block = ca.node]))
        [] t = ":" ->
             Bind(Call("parseExpr", q, <<>>), LAMBDA x :
               LET xb == InitBlock(x.p, <<x.node>>)
                   xa == AddChild(xb.p, tag, xb.node, "")
               IN  R(xa.p, [xa.node EXCEPT !.block = xb.node]))
        [] t \in {"newline", "indent", "outdent", "eos", "start-pipeless-text",
                  "end-pug-interpolation"} -> R(p, tag)
        [] t = "slash" /\ selfClosingAllowed ->
             IF AddChildLocs(tag.loc, tok.loc) = LocMismatch
             THEN R(PlainError(q, MismatchMessage), tag)
             ELSE R(q, [tag EXCEPT !.selfClosing = TRUE])
        [] OTHER ->
             IF Halted(r.p) \/ r.node # UndefinedNode THEN R(r.p, tag)
             ELSE R(ParserError(p, "INVALID_TOKEN",
                      "Unexpected token '" \o t
                        \o "' expected 'text', 'interpolated-code', 'code', ':'"
                        \o (IF selfClosingAllowed THEN ", 'slash'" ELSE "")
                        \o ", 'newline' or 'eos'", tok),
                    tag)

\* tag(tag, options): the block of lines 1161-1165
TagBlock(p, tag) ==
  IF T(p) = HALT THEN R(Halt(p), tag)
  ELSE IF Get(tag, "textOnly", FALSE)
       THEN Bind(Call("parseTextBlock", p, <<>>), LAMBDA tb :
              R(tb.p, [tag EXCEPT !.block = IF tb.node = UndefinedNode THEN EmptyBlock
                                              ELSE tb.node]))
  ELSE IF T(p) = "indent"
       THEN Bind(Call("block", p, <<>>), LAMBDA b :
              LET a == AddChildren(b.p, tag.block, b.node.nodes, "nodes")
              IN  R(a.p, [tag EXCEPT !.block = a.node]))
  ELSE R(p, tag)

\* tag(tag, options), selfClosingAllowed being options && options.selfClosingAllowed
ParserTag(p, tag, selfClosingAllowed) ==
  Bind(TagAttributes(p, tag, <<>>), LAMBDA attributes :
    Bind(TagDot(attributes.p, attributes.node), LAMBDA dot :
      Bind(TagContent(dot.p, dot.node, selfClosingAllowed), LAMBDA content :
        Bind(TagBlock(SkipNewlines(content.p), content.node), LAMBDA body :
          LET located == IF body.node.block.loc = NoLoc
                         THEN [body.node EXCEPT !.block = EmptyLoc(@, body.node.loc)]
                         ELSE body.node
              j == JoinLoc(body.p, located, located.block.loc)
          IN  IF Halted(body.p) THEN R(body.p, UndefinedNode)
              ELSE IF Halted(j.p) THEN R(j.p, UndefinedNode)
              ELSE j))))

Call(method, p, args) ==
  CASE method = "parseExpr" -> ParseExpr(p)
    [] method = "parseDot" -> ParseDot(p)
    [] method = "parseText" -> ParseText(p, args)
    [] method = "parseTextHtml" -> ParseTextHtml(p)
    [] method = "parseBlockExpansion" -> ParseBlockExpansion(p)
    [] method = "parseCase" -> ParseCase(p)
    [] method = "parseWhen" -> ParseWhen(p)
    [] method = "parseDefault" -> ParseDefault(p)
    [] method = "parseCode" -> ParseCode(p, args)
    [] method = "parseConditional" -> ParseConditional(p)
    [] method = "parseConditionalElse" -> ParseConditionalElse(p, args)
    [] method = "parseWhile" -> ParseWhile(p)
    [] method = "parseBlockCode" -> ParseBlockCode(p)
    [] method = "parseComment" -> ParseComment(p)
    [] method = "parseDoctype" -> ParseDoctype(p)
    [] method = "parseFilter" -> ParseFilter(p)
    [] method = "parseEach" -> ParseEach(p)
    [] method = "parseExtends" -> ParseExtends(p)
    [] method = "parseBlock" -> ParseBlock(p)
    [] method = "parseMixinBlock" -> ParseMixinBlock(p)
    [] method = "parseYield" -> ParseYield(p)
    [] method = "parseInclude" -> ParseInclude(p)
    [] method = "parseCall" -> ParseCall(p)
    [] method = "parseMixin" -> ParseMixin(p)
    [] method = "parseTextBlock" -> ParseTextBlock(p)
    [] method = "block" -> Block(p)
    [] method = "parseInterpolation" -> ParseInterpolation(p)
    [] method = "parseTag" -> ParseTag(p)
    [] method = "tag" -> ParserTag(p, args[1], args[2])

----------------------------------------------------------------------------
(* lex(str, options): the constructor, then getTokens.                     *)

Running == [kind |-> "running"]
NoParse == [kind |-> "not parsed"]

Filenames == {"a.pug", NoFilename}
\* options.startingLine and options.startingColumn: not given, or line 2, column 3.
StartingPositions == {<<0, 0>>, <<2, 3>>}
LexerOptions ==
  {[filename |-> f, startingLine |-> p[1], startingColumn |-> p[2]] :
     f \in Filenames, p \in StartingPositions}

Init ==
  /\ \E str \in StringsUpTo(MaxSrcLen), options \in LexerOptions :
       lexer = Constructor(str, options)
  /\ outcome = Running
  /\ advances = 0
  /\ fnCall = NoCall
  /\ fnResult = NoCall
  /\ vocab = ""
  /\ stream = <<>>
  /\ parsed = NoParse

\* One turn of `while (this.advance());` and, when advance() returns a
\* falsy value, `return this.tokens`.
GetTokens ==
  /\ outcome = Running
  /\ LET r == Advance(lexer)
     IN  /\ lexer' = r.lx
         /\ outcome' = IF r.exc # NoExc THEN r.exc
                       ELSE IF r.ret THEN Running
                       ELSE [kind |-> "returned", tokens |-> r.lx.tokens]
  /\ advances' = IF advances >= MaxAdvances THEN 1 ELSE advances + 1
  /\ UNCHANGED <<fnCall, fnResult, vocab, stream, parsed>>

Next == GetTokens

Spec == Init /\ [][Next]_vars

\* getTokens is a loop: while the lexer runs, advance() is called again.
LiveSpec == Spec /\ WF_vars(GetTokens)

----------------------------------------------------------------------------
(* tok(type, addl) on its own: the lexer stands at any position the        *)
(* constructor can give it, and tok is called as eos() and outdent() call  *)
(* it.                                                                     *)

TokTypes == {"outdent", "eos"}

TokInit ==
  /\ \E filename \in Filenames, line \in 1..MaxLine, column \in 1..MaxColumn :
       lexer = Constructor(<<>>, [filename |-> filename, startingLine |-> line,
                                  startingColumn |-> column])
  /\ \E type \in TokTypes : fnCall = [fn |-> "tok", type |-> type]
  /\ fnResult = NoCall
  /\ outcome = Running
  /\ advances = 0
  /\ vocab = ""
  /\ stream = <<>>
  /\ parsed = NoParse

CallTok ==
  /\ fnCall.fn = "tok"
  /\ fnResult = NoCall
  /\ LET r == Tok(lexer, fnCall.type, <<>>)
     IN  fnResult' = IF r.exc # NoExc THEN [fn |-> "tok", exc |-> r.exc]
                     ELSE [fn |-> "tok", exc |-> NoExc, tok |-> r.tok]
  /\ UNCHANGED <<lexer, outcome, advances, fnCall, vocab, stream, parsed>>

TokNext == CallTok

TokSpec == TokInit /\ [][TokNext]_vars

----------------------------------------------------------------------------
(* addChildLocs(parent, child) on its own: both arguments are drawn from   *)
(* the locations of two files whose start is not after their end, and      *)
(* from undefined.                                                         *)

LocFilenames == {"a.pug", "b.pug"}
Positions == [line : 1..MaxLocLine, column : 1..MaxLocColumn]
Locations ==
  {l \in [start : Positions, end : Positions, filename : LocFilenames] :
     ~Before(l.end, l.start)}

LocInit ==
  /\ \E parent \in Locations \cup {NoLoc}, child \in Locations \cup {NoLoc} :
       fnCall = [fn |-> "addChildLocs", parent |-> parent, child |-> child]
  /\ fnResult = NoCall
  /\ lexer = [kind |-> "no lexer"]
  /\ outcome = NoExc
  /\ advances = 0
  /\ vocab = ""
  /\ stream = <<>>
  /\ parsed = [kind |-> "not parsed"]

\* The call writes to the object `r` it builds and to nothing else: the two
\* arguments afterwards are the arguments.
CallAddChildLocs ==
  /\ fnCall.fn = "addChildLocs"
  /\ fnResult = NoCall
  /\ fnResult' = [fn |-> "addChildLocs",
                  loc |-> AddChildLocs(fnCall.parent, fnCall.child),
                  parent |-> fnCall.parent,
                  child |-> fnCall.child]
  /\ UNCHANGED <<lexer, outcome, advances, fnCall, vocab, stream, parsed>>

LocNext == CallAddChildLocs

LocSpec == LocInit /\ [][LocNext]_vars

----------------------------------------------------------------------------
(* parse(tokens, options) on the token arrays the lexer's contract          *)
(* describes: tokens of the vocabulary, one after the other, closed by      *)
(* `eos`, every token located where it stands.  `stream` is the array       *)
(* without its `eos` and without the locations; Tokens(stream) is the       *)
(* array handed to the parser.  A token is added to an array only while     *)
(* the parser still reads the array to its end: once it throws before the   *)
(* last token, no longer array with that beginning parses differently.      *)

EosTok == [type |-> "eos"]
TagTok == [type |-> "tag", val |-> "p"]
TextTok == [type |-> "text", val |-> "t"]
NewlineTok == [type |-> "newline"]
IndentTok == [type |-> "indent", val |-> 2]
OutdentTok == [type |-> "outdent"]
WhileTok == [type |-> "while", val |-> "x"]
MixinTok == [type |-> "mixin", val |-> "m", args |-> ""]
FilterTok == [type |-> "filter", val |-> "f"]
IncludeTok == [type |-> "include"]
PugPathTok == [type |-> "path", val |-> <<" ", "b", ".", "p", "u", "g">>]
RawPathTok == [type |-> "path", val |-> <<"b", ".", "c">>]
IfTok == [type |-> "if", val |-> "x"]
ElseIfTok == [type |-> "else-if", val |-> "y"]
ElseTok == [type |-> "else"]

\* The other tokens, by the name the vocabularies give them.
TokenOf(kind) ==
  CASE kind = "id" -> [type |-> "id", val |-> "a"]
    [] kind = "class" -> [type |-> "class", val |-> "c"]
    [] kind = "start-attributes" -> [type |-> "start-attributes"]
    [] kind = "end-attributes" -> [type |-> "end-attributes"]
    [] kind = "id=" -> [type |-> "attribute", name |-> "id", val |-> "'b'", mustEscape |-> TRUE]
    [] kind = "class=" ->
         [type |-> "attribute", name |-> "class", val |-> "'d'", mustEscape |-> TRUE]
    [] kind = "x=" -> [type |-> "attribute", name |-> "x", val |-> "1", mustEscape |-> TRUE]
    [] kind = "interpolation" -> [type |-> "interpolation", val |-> "e"]
    [] kind = "call" -> [type |-> "call", val |-> "m", args |-> ""]
    [] kind = "case" -> [type |-> "case", val |-> "e"]
    [] kind = "when" -> [type |-> "when", val |-> "1"]
    [] kind = "comment" -> [type |-> "comment", val |-> "c", buffer |-> FALSE]
    [] kind = "code=" ->
         [type |-> "code", val |-> <<"x">>, buffer |-> TRUE, mustEscape |-> TRUE]
    [] kind = "code-" ->
         [type |-> "code", val |-> <<"y">>, buffer |-> FALSE, mustEscape |-> FALSE]
    [] kind = "jade path" -> [type |-> "path", val |-> <<"b", ".", "j", "a", "d", "e", " ">>]
    [] OTHER -> [type |-> kind]

Vocabulary(name) ==
  CASE name = "blocks" ->
         <<TagTok, TextTok, NewlineTok, IndentTok, OutdentTok, WhileTok, MixinTok, FilterTok>>
    [] name = "includes" ->
         <<TagTok, IndentTok, OutdentTok, IncludeTok, FilterTok, PugPathTok, RawPathTok,
           TokenOf("jade path")>>
    [] name = "conditionals" ->
         <<TagTok, NewlineTok, IndentTok, OutdentTok, IfTok, ElseIfTok, ElseTok>>
    [] name = "attributes" ->
         <<TagTok, TokenOf("id"), TokenOf("class"), TokenOf("start-attributes"),
           TokenOf("end-attributes"), TokenOf("id="), TokenOf("class=")>>
    [] name = "attribute lists" ->
         <<TokenOf("interpolation"), TokenOf("call"), FilterTok, IncludeTok, RawPathTok,
           TokenOf("start-attributes"), TokenOf("end-attributes"), TokenOf("x="),
           TokenOf("class=")>>
    [] name = "mixins" ->
         <<TagTok, IndentTok, OutdentTok, MixinTok, TokenOf("mixin-block"), TokenOf("call")>>
    [] name = "plugins" -> <<TagTok, NewlineTok, TokenOf("custom")>>
    [] name = "cases" ->
         <<TagTok, NewlineTok, IndentTok, OutdentTok, TokenOf("when"), TokenOf("default"),
           TokenOf("comment"), TokenOf(":")>>
    [] name = "pipeless text" ->
         <<TagTok, TextTok, NewlineTok, IndentTok, TokenOf("dot"), TokenOf("blockcode"),
           TokenOf("start-pipeless-text"), TokenOf("end-pipeless-text")>>
    [] name = "self-closing" ->
         <<TagTok, TokenOf("interpolation"), TokenOf("call"), TokenOf("slash"), NewlineTok,
           IndentTok, OutdentTok>>
    [] name = "code" ->
         <<TagTok, TokenOf("code="), TokenOf("code-"), NewlineTok, IndentTok, OutdentTok>>
    [] OTHER -> <<>>

\* The tokens every array of a vocabulary starts with.
Opening(name) ==
  IF name = "cases" THEN <<TokenOf("case"), IndentTok>> ELSE <<>>

Vocabularies ==
  {"blocks", "includes", "conditionals", "attributes", "attribute lists", "mixins",
   "plugins", "cases", "pipeless text", "self-closing",
   "code"}

\* The tokens that stand first on a line of the source.
LineStarts == {"newline", "indent", "outdent"}

\* The location of the i-th token of an array: a line per token that starts
\* one, a column per token.
Locate(toks, i, filename) ==
  LET line == 1 + Cardinality({k \in 1..i : toks[k].type \in LineStarts})
  IN  [start |-> [line |-> line, column |-> i],
       end |-> [line |-> line, column |-> i + 1],
       filename |-> filename]

ParserOptions == [filename |-> "a.pug", src |-> <<>>, plugins |-> <<>>]

\* options.plugins: for the arrays of the vocabulary "plugins", two plugins
\* that both have a handler for the token `custom` in the context
\* expressionTokens; no plugin for the others.
Plugins(name) ==
  IF name = "plugins"
  THEN << {<<"expressionTokens", "custom">>}, {<<"expressionTokens", "custom">>} >>
  ELSE <<>>

OptionsOf(name) == [ParserOptions EXCEPT !.plugins = Plugins(name)]

Tokens(toks) ==
  LET all == toks \o <<EosTok>>
  IN  [i \in 1..Len(all) |-> all[i] @@ [loc |-> Locate(all, i, ParserOptions.filename)]]

\* The parser threw before it had read the last token before `eos`.
Dead(result) == Halted(result.p) /\ Len(result.p.toks) >= result.p.pending + 2

NoLexer == Constructor(<<>>, [filename |-> NoFilename, startingLine |-> 0,
                               startingColumn |-> 0])

ParserInit ==
  /\ vocab \in Vocabularies
  /\ stream = Opening(vocab)
  /\ parsed = NoParse
  /\ lexer = NoLexer
  /\ outcome = NoExc
  /\ advances = 0
  /\ fnCall = NoCall
  /\ fnResult = NoCall

\* new Parser(tokens, options).parse()
CallParse ==
  /\ vocab \in Vocabularies
  /\ parsed = NoParse
  /\ parsed' = Parse(NewParser(Tokens(stream), OptionsOf(vocab)))
  /\ UNCHANGED <<stream, vocab, lexer, outcome, advances, fnCall, fnResult>>

\* The next array: one more token before `eos`.
NextToken ==
  /\ parsed # NoParse
  /\ ~Dead(parsed)
  /\ Len(stream) < Len(Opening(vocab)) + MaxTokens
  /\ \E i \in 1..Len(Vocabulary(vocab)) : stream' = Append(stream, Vocabulary(vocab)[i])
  /\ parsed' = NoParse
  /\ UNCHANGED <<vocab, lexer, outcome, advances, fnCall, fnResult>>

ParserNext == CallParse \/ NextToken

ParserSpec == ParserInit /\ [][ParserNext]_vars

----------------------------------------------------------------------------
(* Claims about the lexer.                                                 *)

Stopped == outcome # Running

Last(seq) == seq[Len(seq)]

\* C2: for every source string the driving loop getTokens eventually
\* stops: it returns the token sequence or raises an error.
C2_Terminates == <>Stopped

\* The reason C2 gives: every turn of the driving loop that reports a match
\* (advance() is truthy, so the loop goes on) has consumed input or changed
\* the lexer state.
MatchConsumes ==
  [][(outcome = Running /\ outcome' = Running) => lexer' # lexer]_vars

\* A source that is one line holding one tag name.
SingleTagLine(str) == Len(str) >= 1 /\ \A j \in 1..Len(str) : str[j] \in WordChars

\* C3: for a source that is a single line holding one tag name, the lexer
\* returns exactly two tokens: a `tag` token carrying the name, then `eos`.
C3_SingleTag ==
  SingleTagLine(lexer.original) =>
    <>(/\ outcome.kind = "returned"
       /\ Len(outcome.tokens) = 2
       /\ outcome.tokens[1].type = "tag"
       /\ outcome.tokens[1].val = lexer.original
       /\ outcome.tokens[2].type = "eos")

\* No character of the source is left to read.
NothingLeft(s) == s.lines = <<>> \/ s.lines = << <<>> >>

\* C4: once the lexer has been driven at the end of the input in default
\* mode, it has emitted `eos` as the last token, closed every depth, and
\* getTokens has returned the sequence.
C4_EosAtEndOfInput ==
  (advances >= 1 /\ NothingLeft(lexer) /\ lexer.state \in {STATE_DEFAULT, STATE_FINISHED}) =>
    /\ outcome.kind = "returned"
    /\ outcome.tokens # <<>>
    /\ Last(outcome.tokens).type = "eos"
    /\ \A k \in 1..(Len(outcome.tokens) - 1) : outcome.tokens[k].type # "eos"
    /\ lexer.indents = 0

\* The leading run of spaces and tabs of a line.
RECURSIVE LeadingWhitespace(_)
LeadingWhitespace(line) ==
  IF line # <<>> /\ line[1] \in {" ", "\t"}
  THEN <<line[1]>> \o LeadingWhitespace(Tail(line))
  ELSE <<>>

Chars(str) == {str[j] : j \in 1..Len(str)}

\* The source is tag lines without indentation followed by a first indented
\* line, whose indentation mixes a space and a tab, holding a tag.
MixedFirstIndent(str) ==
  LET lines == SplitLines(str, <<>>)
      n == Len(lines)
  IN  /\ n >= 2
      /\ \A i \in 1..(n - 1) : SingleTagLine(lines[i])
      /\ Chars(LeadingWhitespace(lines[n])) = {" ", "\t"}
      /\ SingleTagLine(SubstrFrom(lines[n], Len(LeadingWhitespace(lines[n]))))

IndentationErrors == {"PUG:" \o ToString(INVALID_INDENTATION),
                      "PUG:" \o ToString(INCONSISTENT_INDENTATION)}

\* C6: a source whose first indented line mixes tabs and spaces makes the
\* lexer raise an indentation error, and no tokens are returned.
C6_MixedIndentRaises ==
  MixedFirstIndent(lexer.original) =>
    <>(outcome.kind = "PugError" /\ outcome.err.code \in IndentationErrors)

\* C8: whenever no tokenizer of the mode matches the remaining line, the
\* lexer raises the unexpected-text error, which carries the current line
\* and column and the whole source text, and no tokens are returned.
C8_UnexpectedText ==
  [][(outcome = Running /\ (lexer.state + 1) \in DOMAIN STATES
        /\ NoTokenizerMatches(lexer, STATES[lexer.state + 1])) =>
       /\ outcome'.kind = "PugError"
       /\ outcome'.err.code = "PUG:" \o ToString(UNEXPECTED_TEXT)
       /\ outcome'.err.line = lexer.lineIndex
       /\ "column" \in DOMAIN outcome'.err
       /\ outcome'.err.column = lexer.columnIndex
       /\ outcome'.err.src = lexer.original
       /\ lexer'.tokens = <<>>]_vars

LeqPos(a, b) == a.line < b.line \/ (a.line = b.line /\ a.column <= b.column)

\* A location as the parser reads it: loc.start.line, loc.start.column,
\* loc.end.line, loc.end.column, loc.filename, with start <= end.
ParserLocation(loc) ==
  /\ {"start", "end", "filename"} \subseteq DOMAIN loc
  /\ {"line", "column"} \subseteq DOMAIN loc.start
  /\ {"line", "column"} \subseteq DOMAIN loc.end
  /\ LeqPos(loc.start, loc.end)

\* C9: every call of tok produces a token that carries a location in the
\* fields the parser reads, at the lexer's position, with the source
\* identifier given in the options.
C9_TokenLocation ==
  fnResult # NoCall =>
    /\ fnResult.exc = NoExc
    /\ "loc" \in DOMAIN fnResult.tok
    /\ ParserLocation(fnResult.tok.loc)
    /\ fnResult.tok.loc.start = [line |-> lexer.lineIndex, column |-> lexer.columnIndex]
    /\ fnResult.tok.loc.filename = lexer.filename

\* The one shape of an error object.
ErrorShape(err) == {"code", "msg", "line", "column", "filename"} \subseteq DOMAIN err

\* C10: every error the lexer or the parser raises carries code, message,
\* line, column and source identifier, line and column being a position:
\* the lexer's, or the start of a token of the array for the parser.
C10_ErrorShape ==
  /\ outcome.kind = "PugError" =>
        /\ ErrorShape(outcome.err)
        /\ outcome.err.line = lexer.lineIndex
        /\ outcome.err.column = lexer.columnIndex
  /\ (parsed # NoParse /\ parsed.p.exc.kind = "PugError") =>
        /\ ErrorShape(parsed.p.exc.err)
        /\ \E i \in 1..Len(Tokens(stream)) :
             /\ parsed.p.exc.err.line = Tokens(stream)[i].loc.start.line
             /\ parsed.p.exc.err.column = Tokens(stream)[i].loc.start.column

----------------------------------------------------------------------------
(* Claims about the parser.                                                *)

\* The AST returned by parse(), where it returned one.
Returned == parsed # NoParse /\ ~Halted(parsed.p)

\* The nodes a node holds: its body blocks, consequent and alternate, file
\* reference, the children of a block, attributes and include filters.
ChildNodes(n) ==
  LET one(f) == IF f \in DOMAIN n THEN <<n[f]>> ELSE <<>>
      many(f) == IF f \in DOMAIN n THEN n[f] ELSE <<>>
  IN  one("block") \o one("consequent") \o one("alternate") \o one("file")
        \o many("nodes") \o many("attrs") \o many("filters")

\* The locations of the descendants of a node.
RECURSIVE DescendantLocs(_)
DescendantLocs(n) ==
  LET cs == ChildNodes(n)
  IN  UNION {(IF cs[i].loc = NoLoc THEN {} ELSE {cs[i].loc}) \cup DescendantLocs(cs[i]) :
               i \in 1..Len(cs)}

Contains(outer, inner) == LeqPos(outer.start, inner.start) /\ LeqPos(inner.end, outer.end)

RECURSIVE SpanContainment(_)
SpanContainment(n) ==
  LET cs == ChildNodes(n)
  IN  /\ n.loc # NoLoc => \A l \in DescendantLocs(n) : Contains(n.loc, l)
      /\ \A i \in 1..Len(cs) : SpanContainment(cs[i])

\* C1: in every AST that parse returns, the span of every node contains
\* the span of each of its descendants.
C1_SpanContainment == Returned => SpanContainment(parsed.node)

----------------------------------------------------------------------------
(* Claims about addChildLocs.                                              *)

Defined(loc) == loc # NoLoc

MinPos(a, b) == IF Before(b, a) THEN b ELSE a
MaxPos(a, b) == IF Before(a, b) THEN b ELSE a

\* The call has been made on two locations of one file.
MergedSameFile ==
  /\ fnResult # NoCall
  /\ fnResult.fn = "addChildLocs"
  /\ Defined(fnCall.parent) /\ Defined(fnCall.child)
  /\ fnCall.parent.filename = fnCall.child.filename

\* C11: the merge of two locations of one file is the same in either
\* argument order, starts at the smaller of the two starts, ends at the
\* larger of the two ends, and leaves both arguments as they were.
C11_MergeCommutes ==
  MergedSameFile =>
    /\ fnResult.loc = AddChildLocs(fnCall.child, fnCall.parent)
    /\ fnResult.loc.start = MinPos(fnCall.parent.start, fnCall.child.start)
    /\ fnResult.loc.end = MaxPos(fnCall.parent.end, fnCall.child.end)
    /\ fnResult.loc.filename = fnCall.parent.filename
    /\ fnResult.parent = fnCall.parent
    /\ fnResult.child = fnCall.child

\* C11 witness: a merge where the child starts before the parent and the
\* parent ends after the child, so both comparisons of the code decide.
C11_Witness ==
  /\ MergedSameFile
  /\ Before(fnCall.child.start, fnCall.parent.start)
  /\ Before(fnCall.child.end, fnCall.parent.end)

\* The call has been made on two locations of different files.
MergedTwoFiles ==
  /\ fnResult # NoCall
  /\ fnResult.fn = "addChildLocs"
  /\ Defined(fnCall.parent) /\ Defined(fnCall.child)
  /\ fnCall.parent.filename # fnCall.child.filename

\* C12: merging two locations of different files throws, in either
\* argument order, and produces no location.
C12_MergeTwoFilesFails ==
  MergedTwoFiles =>
    /\ fnResult.loc = LocMismatch
    /\ AddChildLocs(fnCall.child, fnCall.parent) = LocMismatch

\* C12 witness: a merge of a location of a.pug with a location of b.pug.
C12_Witness ==
  /\ MergedTwoFiles
  /\ fnCall.parent.filename = "a.pug"
  /\ fnCall.child.filename = "b.pug"

----------------------------------------------------------------------------
(* Claims about the nodes of the tree.                                     *)

\* The nodes a node holds, null left out.
SubNodes(n) == SelectSeq(ChildNodes(n), LAMBDA c : c # Null)

RECURSIVE AllLocated(_)
AllLocated(n) ==
  /\ n.loc # NoLoc
  /\ \A i \in 1..Len(SubNodes(n)) : AllLocated(SubNodes(n)[i])

BodyFields == {"block", "consequent", "alternate"}

\* A Block without children.
Childless(b) == b # Null /\ b.type = "Block" /\ b.nodes = <<>>

\* Every childless body block below n has a zero-width location.
RECURSIVE EmptyBodiesAnchored(_)
EmptyBodiesAnchored(n) ==
  /\ \A f \in BodyFields \cap DOMAIN n :
       Childless(n[f]) => (n[f].loc # NoLoc /\ n[f].loc.start = n[f].loc.end)
  /\ \A i \in 1..Len(SubNodes(n)) : EmptyBodiesAnchored(SubNodes(n)[i])

\* C13: every node of a returned tree carries a location, and a body block
\* without children carries a zero-width one.
C13_EveryNodeLocated ==
  Returned => (AllLocated(parsed.node) /\ EmptyBodiesAnchored(parsed.node))

----------------------------------------------------------------------------
(* Claims about attributes.                                                *)

\* parse() threw the error of this code.
Raised(code) ==
  /\ parsed # NoParse
  /\ parsed.p.exc.kind = "PugError"
  /\ parsed.p.exc.err.code = "PUG:" \o code

\* The ids of the tag whose attribute part `toks` is, in token order: a
\* "shorthand" for an `id` token, an "attribute" for an attribute named id
\* of an attribute list.  The attribute part ends at the first token that is
\* neither a shorthand nor part of a list of id and class attributes.
RECURSIVE IdKinds(_, _)
IdKinds(toks, inList) ==
  IF toks = <<>> THEN <<>>
  ELSE LET t == toks[1]
       IN  IF ~inList
           THEN CASE t.type = "id" -> <<"shorthand">> \o IdKinds(Tail(toks), FALSE)
                  [] t.type = "class" -> IdKinds(Tail(toks), FALSE)
                  [] t.type = "start-attributes" -> IdKinds(Tail(toks), TRUE)
                  [] OTHER -> <<>>
           ELSE CASE t.type = "attribute" /\ t.name = "id" ->
                       <<"attribute">> \o IdKinds(Tail(toks), TRUE)
                  [] t.type = "attribute" /\ t.name = "class" -> IdKinds(Tail(toks), TRUE)
                  [] t.type = "end-attributes" -> IdKinds(Tail(toks), FALSE)
                  [] OTHER -> <<>>

\* The array starts with a tag whose first two ids are given as `kinds`.
TagWithIds(kinds) ==
  /\ parsed # NoParse
  /\ Len(stream) >= 3
  /\ stream[1].type = "tag"
  /\ Len(IdKinds(Tail(stream), FALSE)) >= 2
  /\ SubSeq(IdKinds(Tail(stream), FALSE), 1, 2) = kinds

\* C14: a tag with two id shorthands, or with an id attribute and an id
\* shorthand in either order, makes parse() raise DUPLICATE_ID.
C14_DuplicateId ==
  (\/ TagWithIds(<<"shorthand", "shorthand">>)
   \/ TagWithIds(<<"attribute", "shorthand">>)
   \/ TagWithIds(<<"shorthand", "attribute">>)) => Raised("DUPLICATE_ID")

\* The token types that own the attribute list that follows them.
ListOwners == {"tag", "interpolation", "call", "filter"}

\* Where the array opens an attribute list the parser consumes: on a tag, an
\* interpolated tag, a call or a filter, or on the filter of an include;
\* 0 where it opens none.
ListStart(toks) ==
  IF Len(toks) >= 2 /\ toks[1].type \in ListOwners /\ toks[2].type = "start-attributes"
  THEN 2
  ELSE IF /\ Len(toks) >= 3
          /\ toks[1].type = "include"
          /\ toks[2].type = "filter"
          /\ toks[3].type = "start-attributes"
       THEN 3
       ELSE 0

\* The attribute tokens a list starts with.
RECURSIVE LeadingAttributes(_)
LeadingAttributes(toks) ==
  IF toks # <<>> /\ toks[1].type = "attribute"
  THEN <<toks[1]>> \o LeadingAttributes(Tail(toks))
  ELSE <<>>

ListAttributes(toks) == LeadingAttributes(SubSeq(toks, ListStart(toks) + 1, Len(toks)))

RepeatedName(attrs) ==
  \E i, j \in 1..Len(attrs) : i < j /\ attrs[i].name = attrs[j].name /\ attrs[i].name # "class"

OnlyClass(attrs) == \A i \in 1..Len(attrs) : attrs[i].name = "class"

\* C15: an attribute list with two attributes of one name other than class
\* makes parse() raise DUPLICATE_ATTRIBUTE, whichever token owns the list;
\* a list of class attributes does not.
C15_DuplicateAttribute ==
  (parsed # NoParse /\ ListStart(stream) > 0) =>
    /\ RepeatedName(ListAttributes(stream)) => Raised("DUPLICATE_ATTRIBUTE")
    /\ OnlyClass(ListAttributes(stream)) => ~Raised("DUPLICATE_ATTRIBUTE")

----------------------------------------------------------------------------
(* Claims about mixins.                                                    *)

\* How many tokens of the array parse() has consumed where it stops: what
\* is left of the array is what is left of the stream (a token that
\* attrs() has put back is not consumed, and the `tag` that parseExpr puts
\* in front of an id or a class is consumed by the parseTag that follows).
Consumed == Len(stream) + 1 - Len(parsed.p.toks)

\* The indented bodies that are open after the first k tokens, outermost
\* first: TRUE for the body of a mixin declaration.
RECURSIVE OpenBodies(_, _)
OpenBodies(toks, k) ==
  IF k = 0 THEN <<>>
  ELSE LET open == OpenBodies(toks, k - 1)
       IN  IF k > Len(toks) THEN open
           ELSE IF toks[k].type = "indent"
           THEN Append(open, k > 1 /\ toks[k - 1].type = "mixin")
           ELSE IF toks[k].type = "outdent" /\ open # <<>>
                THEN SubSeq(open, 1, Len(open) - 1)
                ELSE open

\* The number of mixin declarations whose body is open after k tokens.
MixinDepth(toks, k) ==
  Cardinality({i \in 1..Len(OpenBodies(toks, k)) : OpenBodies(toks, k)[i]})

\* The token consumed last is a `mixin` token that no `indent` follows.
MixinWithoutIndent ==
  /\ parsed # NoParse
  /\ Consumed \in 1..Len(stream)
  /\ stream[Consumed].type = "mixin"
  /\ Tokens(stream)[Consumed + 1].type # "indent"

\* C16: a `mixin` token that no `indent` token follows makes parse() raise
\* MIXIN_WITHOUT_BODY at the line and column where the `mixin` token starts.
C16_MixinWithoutBody ==
  MixinWithoutIndent =>
    /\ Raised("MIXIN_WITHOUT_BODY")
    /\ parsed.p.exc.err.line = Tokens(stream)[Consumed].loc.start.line
    /\ parsed.p.exc.err.column = Tokens(stream)[Consumed].loc.start.column

\* C16 witness: a mixin declared without body on the second line or later,
\* inside the body of another one.
C16_Witness ==
  /\ MixinWithoutIndent
  /\ Consumed >= 3
  /\ Tokens(stream)[Consumed].loc.start.line >= 2
  /\ MixinDepth(stream, Consumed) >= 1

\* The token consumed last is a `mixin-block` token.
AtMixinBlock ==
  /\ parsed # NoParse
  /\ Consumed \in 1..Len(stream)
  /\ stream[Consumed].type = "mixin-block"

\* C17: a `mixin-block` token is refused exactly when no body of a mixin
\* declaration is open around it; inMixin is the number of open bodies of
\* mixin declarations wherever parse() stops, and 0 where it returns.
C17_MixinBlockInsideMixin ==
  parsed # NoParse =>
    /\ parsed.p.inMixin = MixinDepth(stream, Consumed)
    /\ parsed.p.inMixin >= 0
    /\ Returned => parsed.p.inMixin = 0
    /\ AtMixinBlock => (Raised("BLOCK_OUTISDE_MIXIN") <=> MixinDepth(stream, Consumed) = 0)
    /\ Raised("BLOCK_OUTISDE_MIXIN") => AtMixinBlock

\* C17 witness: a tree is returned for an array with a `mixin-block` token.
C17_Witness ==
  /\ Returned
  /\ \E i \in 1..Len(stream) : stream[i].type = "mixin-block"

\* A `mixin-block` token is refused in the body of a call that stands
\* outside every mixin declaration.
C17_WitnessRefused ==
  /\ AtMixinBlock
  /\ Raised("BLOCK_OUTISDE_MIXIN")
  /\ OpenBodies(stream, Consumed) # <<>>

----------------------------------------------------------------------------
(* Claims about plugins.                                                   *)

\* Two plugins of the registry have a handler for one and the same pair of
\* context and token type.
Conflicting(plugins) ==
  \E i, j \in 1..Len(plugins) : i < j /\ plugins[i] \cap plugins[j] # {}

\* C18: with two plugins that handle the same pair of context and token
\* type, parse() throws the error of the conflict before it has consumed a
\* token, whatever the token array holds.
C18_PluginConflict ==
  (parsed # NoParse /\ Conflicting(parsed.p.plugins)) =>
    /\ parsed.p.exc.kind = "Error"
    /\ Consumed = 0

----------------------------------------------------------------------------
(* Claims about conditionals.                                              *)

\* The positions, from i on, of the `else-if` and `else` tokens that
\* continue the chain of the `if` before them: those outside every indented
\* block (d is the number of open ones), newlines skipped, up to the `else`
\* or to the first token that is none of these.
RECURSIVE ChainScan(_, _, _)
ChainScan(toks, i, d) ==
  IF i > Len(toks) THEN <<>>
  ELSE LET t == toks[i].type
       IN  CASE t = "indent" -> ChainScan(toks, i + 1, d + 1)
             [] t = "outdent" -> IF d = 0 THEN <<>> ELSE ChainScan(toks, i + 1, d - 1)
             [] t \notin {"indent", "outdent"} /\ d > 0 -> ChainScan(toks, i + 1, d)
             [] t = "newline" /\ d = 0 -> ChainScan(toks, i + 1, 0)
             [] t = "else-if" /\ d = 0 -> <<i>> \o ChainScan(toks, i + 1, 0)
             [] t = "else" /\ d = 0 -> <<i>>
             [] OTHER -> <<>>

\* The chain that starts with the `if` at the head of the array.
ChainTokens == <<1>> \o ChainScan(stream, 2, 0)

\* The positions of its `if` and `else-if` tokens.
TestTokens == SelectSeq(ChainTokens, LAMBDA i : stream[i].type # "else")

\* The chain ends with an `else` that an indented block follows.
ElseWithBlock ==
  LET e == ChainTokens[Len(ChainTokens)]
  IN  stream[e].type = "else" /\ e < Len(stream) /\ stream[e + 1].type = "indent"

\* The Conditional nodes from a node on, along `alternate`.
RECURSIVE Chain(_)
Chain(node) ==
  IF node.alternate # Null /\ node.alternate.type = "Conditional"
  THEN <<node>> \o Chain(node.alternate)
  ELSE <<node>>

\* A tree is returned for an array that starts with `if`.
ChainReturned == Returned /\ stream # <<>> /\ stream[1].type = "if"

\* C19: the `if` and its k `else-if` tokens yield k+1 Conditional nodes
\* linked through `alternate` in token order, each with a Block as its
\* consequent; the last alternate is the Block of a trailing `else` with an
\* indented block, and null otherwise.
C19_ConditionalChain ==
  ChainReturned =>
    LET head == parsed.node.nodes[1]
        chain == Chain(head)
        last == chain[Len(chain)]
    IN  /\ head.type = "Conditional"
        /\ Len(chain) = Len(TestTokens)
        /\ \A i \in 1..Len(chain) :
             /\ chain[i].test = stream[TestTokens[i]].val
             /\ chain[i].loc.start = Tokens(stream)[TestTokens[i]].loc.start
             /\ "consequent" \in DOMAIN chain[i]
             /\ chain[i].consequent.type = "Block"
        /\ IF ElseWithBlock THEN last.alternate.type = "Block" ELSE last.alternate = Null

\* C19 witness: an `if`, at least one `else-if`, and an `else` with an
\* indented block.
C19_Witness ==
  /\ ChainReturned
  /\ Len(TestTokens) >= 2
  /\ ElseWithBlock

----------------------------------------------------------------------------
(* Claims about case.                                                      *)

\* The array starts with `case` and the `indent` of its body.
CaseOpened ==
  /\ parsed # NoParse
  /\ Len(stream) >= 2
  /\ stream[1].type = "case"
  /\ stream[2].type = "indent"

\* The positions, from i on, of the `when` and `default` tokens of the body:
\* those outside every indented block of the body (d is the number of open
\* ones), up to the `outdent` that closes the body.
RECURSIVE BodyScan(_, _, _)
BodyScan(toks, i, d) ==
  IF i > Len(toks) THEN <<>>
  ELSE LET t == toks[i].type
       IN  CASE t = "indent" -> BodyScan(toks, i + 1, d + 1)
             [] t = "outdent" -> IF d = 0 THEN <<>> ELSE BodyScan(toks, i + 1, d - 1)
             [] t \in {"when", "default"} /\ d = 0 -> <<i>> \o BodyScan(toks, i + 1, 0)
             [] OTHER -> BodyScan(toks, i + 1, d)

WhenTokens == BodyScan(stream, 3, 0)

\* The tokens the body of a case may hold, and the `outdent` that ends it.
BodyTokens == {"when", "default", "newline", "comment", "outdent"}

\* The tokens 3..j-1 are newlines, comments and `when` tokens followed by a
\* newline: the loop of parseCase stands at token j.
AtBodyToken(j) ==
  \A k \in 3..(j - 1) :
    /\ Tokens(stream)[k].type \in {"newline", "comment", "when"}
    /\ Tokens(stream)[k].type = "when" => (k + 1 < j /\ Tokens(stream)[k + 1].type = "newline")

\* C20: the children of the block of a Case node are the When nodes of the
\* `when` and `default` tokens of its body, in token order, repeated
\* expressions kept; a token in the body that is none of when, default,
\* newline and comment makes parse() raise INVALID_TOKEN at that token.
C20_CaseBody ==
  CaseOpened =>
    /\ Returned =>
         LET case == parsed.node.nodes[1]
         IN  /\ case.type = "Case"
             /\ Len(case.block.nodes) = Len(WhenTokens)
             /\ \A i \in 1..Len(WhenTokens) :
                  /\ case.block.nodes[i].type = "When"
                  /\ case.block.nodes[i].loc.start = Tokens(stream)[WhenTokens[i]].loc.start
                  /\ case.block.nodes[i].expr =
                       IF stream[WhenTokens[i]].type = "when"
                       THEN stream[WhenTokens[i]].val ELSE "default"
    /\ \A j \in 3..(Len(stream) + 1) :
         (AtBodyToken(j) /\ Tokens(stream)[j].type \notin BodyTokens) =>
            /\ Raised("INVALID_TOKEN")
            /\ Consumed = j - 1
            /\ parsed.p.exc.err.msg = "Unexpected token \"" \o Tokens(stream)[j].type
                                        \o "\", expected \"when\", \"default\" or \"newline\""
            /\ parsed.p.exc.err.line = Tokens(stream)[j].loc.start.line
            /\ parsed.p.exc.err.column = Tokens(stream)[j].loc.start.column

\* C20 witness: a tree is returned for a case whose body holds two `when`
\* tokens with the same expression.
C20_Witness ==
  /\ CaseOpened
  /\ Returned
  /\ \E i, j \in 1..Len(WhenTokens) :
       /\ i < j
       /\ stream[WhenTokens[i]].type = "when"
       /\ stream[WhenTokens[j]] = stream[WhenTokens[i]]

\* A tag in the body of a case, after a `when`, is refused.
C20_WitnessRefused ==
  /\ CaseOpened
  /\ Raised("INVALID_TOKEN")
  /\ Consumed \in 4..Len(stream)
  /\ AtBodyToken(Consumed + 1)
  /\ Tokens(stream)[Consumed + 1].type = "tag"

----------------------------------------------------------------------------
(* Claims about includes.                                                  *)

\* The nodes of a tree.
RECURSIVE TreeNodes(_)
TreeNodes(n) ==
  {n} \cup UNION {TreeNodes(SubNodes(n)[i]) : i \in 1..Len(SubNodes(n))}

\* The index of the first `path` token at or after j.
RECURSIVE PathIndex(_, _)
PathIndex(toks, j) ==
  IF j > Len(toks) \/ toks[j].type = "path" THEN j ELSE PathIndex(toks, j + 1)

\* The path tokens whose path ends in .pug or .jade.
PugPaths == {PugPathTok, TokenOf("jade path")}

\* The `path` token at j closes a template include: the path is one of a
\* template and the `include` token stands right before it, no filter
\* between the two.
TemplateInclude(toks, j) == toks[j] \in PugPaths /\ toks[j - 1].type = "include"

IncludeNodes ==
  {n \in TreeNodes(parsed.node) : Get(n, "type", "") \in {"Include", "RawInclude"}}

\* The node of the `include` token at i is what the claim says it is.
Classified(n, i) ==
  LET j == PathIndex(stream, i + 1)
      filters == {k \in i + 1..j - 1 : stream[k].type = "filter"}
  IN  /\ stream[i].type = "include"
      /\ j <= Len(stream)
      /\ n.type = "Include" <=> TemplateInclude(stream, j)
      /\ TemplateInclude(stream, j) =>
            /\ "block" \in DOMAIN n
            /\ n.block.type = "Block"
            /\ "filters" \notin DOMAIN n
            /\ Tokens(stream)[j + 1].type # "indent" => n.block.nodes = <<>>
      /\ ~TemplateInclude(stream, j) =>
            /\ "block" \notin DOMAIN n
            /\ Len(n.filters) = Cardinality(filters)
            /\ Tokens(stream)[j + 1].type # "indent"

\* The token consumed last is the `path` of an include that is not a
\* template include, and an `indent` token follows it.
RawIncludeWithIndent ==
  /\ parsed # NoParse
  /\ Consumed \in 2..Len(stream)
  /\ stream[Consumed].type = "path"
  /\ ~TemplateInclude(stream, Consumed)
  /\ Tokens(stream)[Consumed + 1].type = "indent"

\* C21: an include whose path ends in .pug or .jade and that has no filter
\* yields an Include node with a block, empty where no indent follows; every
\* other include yields a RawInclude node, and RAW_INCLUDE_BLOCK is raised
\* exactly where an `indent` token follows one of these.
C21_IncludeClassification ==
  /\ Returned =>
        /\ \A n \in IncludeNodes : Classified(n, n.loc.start.column)
        /\ Cardinality(IncludeNodes)
             = Cardinality({i \in 1..Len(stream) : stream[i].type = "include"})
  /\ RawIncludeWithIndent =>
        /\ Raised("RAW_INCLUDE_BLOCK")
        /\ parsed.p.exc.err.column = Tokens(stream)[Consumed + 1].loc.start.column
  /\ Raised("RAW_INCLUDE_BLOCK") => RawIncludeWithIndent

\* C21 witness: a tree with a template include that has a child in its
\* block, and a tree with a template include without block and an include
\* of another file.
C21_Witness ==
  /\ Returned
  /\ \E n \in IncludeNodes : n.type = "Include" /\ n.block.nodes # <<>>

C21_WitnessBoth ==
  /\ Returned
  /\ \E n, r \in IncludeNodes :
        n.type = "Include" /\ n.block.nodes = <<>> /\ r.type = "RawInclude"

\* An include of a template through a filter is refused with its block.
C21_WitnessRefused ==
  /\ RawIncludeWithIndent
  /\ stream[Consumed] \in PugPaths
  /\ Raised("RAW_INCLUDE_BLOCK")

----------------------------------------------------------------------------
(* Claims about the token stream.                                          *)

\* The tokens of the array that make the parser defer a token: an `id` or
\* a `class` that parseExpr meets, and a `start-attributes`.
Shorthands == {i \in 1..Len(stream) : stream[i].type \in {"id", "class"}}
Lists == {i \in 1..Len(stream) : stream[i].type = "start-attributes"}

\* parse() stopped in expect('end-attributes') with the token that attrs()
\* had put back still in front of the stream.
RefusedAfterList ==
  /\ Raised("INVALID_TOKEN")
  /\ parsed.p.toks # <<>>
  /\ parsed.p.toks[1].type # "end-attributes"
  /\ parsed.p.exc.err.msg
       = "expected \"end-attributes\", but got \"" \o parsed.p.toks[1].type \o "\""
  /\ parsed.p.exc.err.column = parsed.p.toks[1].loc.start.column

\* C22: never more than one deferred token is pending; a deferred token is
\* consumed before parse() goes on, or parse() stops on it in the expect
\* that follows the defer; none is pending where a tree is returned.
C22_SingleDeferred ==
  parsed # NoParse =>
    /\ parsed.p.maxPending <= 1
    /\ parsed.p.pending <= parsed.p.maxPending
    /\ Returned => parsed.p.pending = 0
    /\ parsed.p.pending = 1 => RefusedAfterList
    /\ parsed.p.maxPending = 1 => (Shorthands \cup Lists) # {}

\* C22 witness: a tree is returned for an array with a shorthand that
\* stands for a div and with an attribute list, a token deferred for each.
C22_Witness ==
  /\ Returned
  /\ parsed.p.maxPending = 1
  /\ stream[1].type \in {"id", "class"}
  /\ Lists # {}

\* parse() stops with the token that attrs() put back pending.
C22_WitnessAbort == parsed # NoParse /\ parsed.p.pending = 1 /\ RefusedAfterList

\* The exception of peek() and advance() on an exhausted stream.
PastTheEnd ==
  /\ parsed # NoParse
  /\ parsed.p.exc = [kind |-> "Error", msg |-> "Cannot read past the end of a stream"]

\* The last token of the array that opens what a later token closes, and
\* is not closed: an `indent` (of a block or of a case body), a
\* `start-attributes`, a `start-pipeless-text`.
Closer(type) ==
  CASE type = "indent" -> "outdent"
    [] type = "start-attributes" -> "end-attributes"
    [] OTHER -> "end-pipeless-text"

Unfinished ==
  \E i \in 1..Len(stream) :
    /\ stream[i].type \in {"indent", "start-attributes", "start-pipeless-text"}
    /\ \A k \in i + 1..Len(stream) : stream[k].type # Closer(stream[i].type)

\* parse() stopped with every token before `eos` consumed.
AtEos == parsed # NoParse /\ Consumed >= Len(stream)

\* C23: parse() never reads past `eos`, and where it reaches `eos` inside
\* a block, a case body, an attribute list or a pipeless text that is not
\* closed, it raises a parser error.
C23_StopsAtEos ==
  /\ ~PastTheEnd
  /\ (AtEos /\ Unfinished) => parsed.p.exc.kind = "PugError"

----------------------------------------------------------------------------
(* Claims about parse().                                                   *)

\* What is left of the stream is the end of the array, from the token
\* after the last one consumed, in the order of the array.
RestOfArray ==
  parsed.p.toks = SubSeq(Tokens(stream), Consumed + 1, Len(stream) + 1)

\* parse() threw one exception: a PugError, or an error of the runtime.
Threw ==
  /\ parsed # NoParse
  /\ parsed.p.exc.kind \in {"PugError", "TypeError", "Error"}

C24_WitnessThrown ==
  /\ Threw
  /\ Plugins(vocab) = <<>>
  /\ Consumed + 1 < Len(stream)

----------------------------------------------------------------------------
(* Claims about the tokens.                                                *)

\* C25: parse() leaves every field of every token of the array as it was
\* given: a loc that it assigns to a token is the loc the token had.
C25_TokensUnchanged ==
  parsed # NoParse =>
    \A k \in 1..Len(parsed.p.written) :
      parsed.p.written[k].loc = parsed.p.written[k].token.loc

----------------------------------------------------------------------------
(* Claims about blank lines.                                               *)

\* A line that is empty or holds only spaces and tabs.
BlankLine(line) == \A j \in 1..Len(line) : line[j] \in {" ", "\t"}

\* The lexer stands at a blank line that another line follows.
AtBlankLine ==
  /\ outcome = Running
  /\ Len(lexer.lines) >= 2
  /\ BlankLine(lexer.lines[1])

\* C26: at a blank line the lexer pushes no token and raises no error: the
\* turn of the driving loop moves to the next line, adds one to the line
\* counter and sets the column back to the first one after the indentation.
C26_BlankLineSkipped ==
  [][AtBlankLine =>
       /\ outcome' = Running
       /\ lexer'.tokens = lexer.tokens
       /\ lexer'.lines = Tail(lexer.lines)
       /\ lexer'.lineIndex = lexer.lineIndex + 1
       /\ lexer'.columnIndex
            = 1 + (IF lexer.indentStr = Undef THEN 0 ELSE Len(lexer.indentStr))]_vars

----------------------------------------------------------------------------
(* Claims about self-closing tags.                                         *)

\* The next token is a `slash` that follows a token of one of these types,
\* which is the last one consumed.
SlashAfter(types) ==
  /\ parsed # NoParse
  /\ Consumed \in 1..Len(stream) - 1
  /\ stream[Consumed].type \in types
  /\ stream[Consumed + 1].type = "slash"

SelfClosingNodes ==
  {n \in TreeNodes(parsed.node) : Get(n, "selfClosing", FALSE)}

\* C27: a `slash` is consumed after a tag or an interpolated tag and is
\* refused with INVALID_TOKEN after a mixin call; a node that is marked
\* selfClosing is a Tag or an InterpolatedTag whose block has no children.
C27_SelfClosing ==
  /\ ~SlashAfter({"tag", "interpolation"})
  /\ SlashAfter({"call"}) =>
        /\ Raised("INVALID_TOKEN")
        /\ parsed.p.exc.err.column = Tokens(stream)[Consumed + 1].loc.start.column
  /\ Returned =>
        \A n \in SelfClosingNodes :
          /\ n.type \in {"Tag", "InterpolatedTag"}
          /\ n.block.type = "Block"
          /\ n.block.nodes = <<>>

----------------------------------------------------------------------------
(* Claims about code.                                                      *)

\* The `code` token at i stands right after a tag, which parses it inline.
Inline(i) == i > 1 /\ stream[i - 1].type = "tag"

\* The token consumed last is a buffered `code` token that is not inline,
\* and an `indent` token follows it.
BufferedWithIndent ==
  /\ parsed # NoParse
  /\ Consumed \in 1..Len(stream)
  /\ stream[Consumed].type = "code"
  /\ stream[Consumed].buffer
  /\ ~Inline(Consumed)
  /\ Tokens(stream)[Consumed + 1].type = "indent"

\* The Code nodes of `code` tokens (a `blockcode` and an `interpolated-code`
\* token give a Code node too).
CodeNodes ==
  {n \in TreeNodes(parsed.node) :
     Get(n, "type", "") = "Code" /\ stream[n.loc.start.column].type = "code"}

\* The Code node of the `code` token at i has the block that follows the
\* token, where it is not inline and one follows, and no block otherwise.
CodeBody(n, i) ==
  /\ n.buffer = stream[i].buffer
  /\ n.isInline = Inline(i)
  /\ "block" \in DOMAIN n <=> (~Inline(i) /\ Tokens(stream)[i + 1].type = "indent")
  /\ "block" \in DOMAIN n =>
        /\ ~n.buffer
        /\ n.block.type = "Block"
        /\ n.block.nodes # <<>> => n.block.nodes[1].loc.start.column > i + 1

\* C28: a buffered `code` token followed by `indent` raises
\* BLOCK_IN_BUFFERED_CODE at the `indent` and no tree is returned; an
\* unbuffered one gets the block as its body; a `code` token parsed inline
\* in a tag gets no block.
C28_CodeBlock ==
  /\ BufferedWithIndent =>
        /\ Raised("BLOCK_IN_BUFFERED_CODE")
        /\ parsed.p.exc.err.column = Tokens(stream)[Consumed + 1].loc.start.column
  /\ Raised("BLOCK_IN_BUFFERED_CODE") => BufferedWithIndent
  /\ Returned =>
        /\ \A n \in CodeNodes : CodeBody(n, n.loc.start.column)
        /\ Cardinality(CodeNodes)
             = Cardinality({i \in 1..Len(stream) : stream[i].type = "code"})

\* C28 witness: a tree with an unbuffered Code that has a child in its
\* block; a tree with an inline Code that an indented block follows; a
\* buffered code refused with its block.
C28_Witness ==
  /\ Returned
  /\ \E n \in CodeNodes : "block" \in DOMAIN n /\ n.block.nodes # <<>>

C28_WitnessInline ==
  /\ Returned
  /\ \E i \in 2..Len(stream) - 1 :
        stream[i].type = "code" /\ Inline(i) /\ stream[i + 1].type = "indent"

C28_WitnessRefused == BufferedWithIndent /\ Raised("BLOCK_IN_BUFFERED_CODE")
====
